---- MODULE Spec2Model ----
(***************************************************************************)
(* A model of the inspection core of the Perentie debugger:                *)
(*   - AssemblerLoaderMixin (src/assembler_loader.py): the image loaders   *)
(*     and their generator-based progress sequences;                       *)
(*   - MemoryTableViewer.addr_in_range (src/view/memory.py): wraparound    *)
(*     containment.                                                        *)
(* Strings are sequences of one-character strings, so that str.split,      *)
(* str.strip and int(s, 16) are modelled by what they compute.             *)
(***************************************************************************)
EXTENDS Integers, Sequences, FiniteSets, TLC

VARIABLES
    disk,            \* the one image file of the file system: [name, readable, text, image]
    image_filename,  \* AssemblerLoaderMixin.image_filename: NoName (None) or a file name
    image_source,    \* AssemblerLoaderMixin.image_source (a set of entries)
    image_symbols,   \* AssemblerLoaderMixin.image_symbols (a set of entries)
    mem,             \* the target memory: a set of <<address, word>> with unique addresses
    gen,             \* the generator object returned by the last load_image_ call
    retval,          \* what the last load_image_ call returned: "None" or "generator"
    li,              \* position of a load_image caller: "idle", "draining", "returned", "raised"
    last_pull,       \* what the consumer got from its last next(): "pair", "stop", "raise", "none"
    writes,          \* write_memory calls that succeeded since the last load_image_ call
    yielded,         \* progress pairs handed to the consumer since the last load_image_ call
    log,             \* errors given to self.log since the last load_image_ call
    pre_meta,        \* <<image_source, image_symbols>> as they were when load_image_ was entered
    op,              \* name of the last operation executed
    q,               \* the last addr_in_range query: [w, addr, start, len, res]
    regs,            \* the target's pointer registers: register -> current value
    symtab,          \* what get_symbol_pointers enumerates: a sequence of <<name, value>>
    annotations,     \* MemoryTableViewer.annotations: a dict address -> list of annotations
    ann_pc,          \* the _refresh_annotation_data call in progress, if any
    ann_complete,    \* the index as the last refresh that ran to its end left it
    annq,            \* the last get_annotation call: its arguments, what it saw and returned
    memory_table,    \* MemoryTableViewer.memory_table: "None" or the table shown
    self_addr,       \* MemoryTableViewer.addr
    addr_step,       \* MemoryTableViewer.addr_step
    scrolling,       \* MemoryTableViewer.scrolling
    distance,        \* MemoryTableViewer.distance, in tenths
    addr_before_scroll, \* MemoryTableViewer.addr_before_scroll
    vvalue,          \* the scrollbar's offset from its centre, as the speed it stands for
    timers,          \* number of glib timeouts that will call _on_scroll_tick
    inflight,        \* the refresh calls that have not ended yet
    events,          \* number of user and timer events handled so far
    drag,            \* the ticks of the drag under way: offset, distance before and after
    editing_row,     \* MemoryTableViewer.editing_row: NoRow (None) or <<row>>
    rows,            \* MemoryTableViewer.list_store: the rows [addr, length, data] shown
    selection,       \* the row selected in the tree view: NoRow or <<row>>
    selected_addr,   \* MemoryTableViewer.selected_addr
    memval,          \* the addresses of the memory shown whose word is 1, the others being 0
    edits,           \* the _on_edited calls that have not ended yet
    editor,          \* the row of the cell editor that GTK has open: NoRow or <<row>>
    follow,          \* SingleMemoryViewer.follow_check is active
    srefresh,        \* the SingleMemoryViewer.refresh calls that have not ended yet
    sdone,           \* the SingleMemoryViewer.refresh call that ended last
    view_log,        \* what the viewers have given to system.log
    addr_expression, \* SingleMemoryViewer.addr_expression
    unfollowed,      \* what unchecked the follow box last, "none" while it is checked
    lazyw,           \* a _LazyWrapper, its function and the objects the function returned
    viewer           \* a SingleMemoryViewer under construction: its arguments and tables

vars == <<disk, image_filename, image_source, image_symbols, mem, gen, retval,
          li, last_pull, writes, yielded, log, pre_meta, op, q,
          regs, symtab, annotations, ann_pc, ann_complete, annq,
          memory_table, self_addr, addr_step, scrolling, distance, addr_before_scroll,
          vvalue, timers, inflight, events, drag,
          editing_row, rows, selection, selected_addr, memval, edits, editor,
          follow, srefresh, sdone, view_log, addr_expression, unfollowed,
          lazyw, viewer>>

loaderVars == <<disk, image_filename, image_source, image_symbols, mem, gen,
                retval, li, last_pull, writes, yielded, log, pre_meta>>

annVars == <<regs, symtab, annotations, ann_pc, ann_complete, annq>>

scrollVars == <<memory_table, self_addr, addr_step, scrolling, distance,
                addr_before_scroll, vvalue, timers, inflight, events, drag>>

editRest == <<rows, selection, selected_addr, memval, edits, editor>>

editVars == <<editing_row, editRest>>

singleRest == <<sdone, view_log, addr_expression>>

singleVars == <<follow, srefresh, unfollowed, singleRest>>

\* the variables of the viewer, which the loader never touches
utilVars == <<lazyw, viewer>>

restVars == <<annVars, scrollVars, editVars, singleVars, utilVars>>

\* Python's None as a return value, and as a file name (names are character sequences)
None == "None"
NoName == <<>>

(***************************************************************************)
(* Bounds                                                                  *)
(***************************************************************************)
MaxLines == 2        \* lines of a listing file
MaxSections == 2     \* sections of an ELF image
MaxWidth == 3        \* addr_width_bits of the exhaustively enumerated memories

(***************************************************************************)
(* String primitives (Python 2 str)                                        *)
(***************************************************************************)
IsSpace(c) == c \in {" ", "\t", "\n"}

RECURSIVE LStrip(_)
LStrip(s) == IF s # <<>> /\ IsSpace(Head(s)) THEN LStrip(Tail(s)) ELSE s

RECURSIVE RStrip(_)
RStrip(s) ==
    IF s # <<>> /\ IsSpace(s[Len(s)]) THEN RStrip(SubSeq(s, 1, Len(s) - 1)) ELSE s

\* str.strip()
Strip(s) == RStrip(LStrip(s))

\* str.split(sep) for a one-character separator: always at least one segment
RECURSIVE SplitAcc(_, _, _)
SplitAcc(s, sep, cur) ==
    IF s = <<>> THEN <<cur>>
    ELSE IF Head(s) = sep THEN <<cur>> \o SplitAcc(Tail(s), sep, <<>>)
    ELSE SplitAcc(Tail(s), sep, Append(cur, Head(s)))

Split(s, sep) == SplitAcc(s, sep, <<>>)

\* str.split() without argument: runs of whitespace separate, no empty token
RECURSIVE SplitWSAcc(_, _)
SplitWSAcc(s, cur) ==
    IF s = <<>> THEN (IF cur = <<>> THEN <<>> ELSE <<cur>>)
    ELSE IF IsSpace(Head(s))
         THEN (IF cur = <<>> THEN <<>> ELSE <<cur>>) \o SplitWSAcc(Tail(s), <<>>)
    ELSE SplitWSAcc(Tail(s), Append(cur, Head(s)))

SplitWS(s) == SplitWSAcc(s, <<>>)

\* "\n".join(lines)
RECURSIVE Join(_)
Join(lines) ==
    IF lines = <<>> THEN <<>>
    ELSE IF Len(lines) = 1 THEN lines[1]
    ELSE lines[1] \o <<"\n">> \o Join(Tail(lines))

HexDigits == {"0", "1", "2", "3", "4", "5", "6", "7", "8", "9",
              "A", "B", "C", "D", "E", "F", "a", "b", "c", "d", "e", "f"}

HexDigitValue(c) ==
    CASE c = "0" -> 0 [] c = "1" -> 1 [] c = "2" -> 2 [] c = "3" -> 3
      [] c = "4" -> 4 [] c = "5" -> 5 [] c = "6" -> 6 [] c = "7" -> 7
      [] c = "8" -> 8 [] c = "9" -> 9
      [] c \in {"A", "a"} -> 10 [] c \in {"B", "b"} -> 11
      [] c \in {"C", "c"} -> 12 [] c \in {"D", "d"} -> 13
      [] c \in {"E", "e"} -> 14 [] c \in {"F", "f"} -> 15

\* int(s, 16) raises ValueError unless s is a non-empty run of hex digits
\* (over the alphabet of the modelled files: no sign, no 0x prefix)
IsHex(s) == s # <<>> /\ \A i \in 1..Len(s) : s[i] \in HexDigits

RECURSIVE HexValue(_)
HexValue(s) ==
    IF s = <<>> THEN 0
    ELSE HexValue(SubSeq(s, 1, Len(s) - 1)) * 16 + HexDigitValue(s[Len(s)])

(***************************************************************************)
(* Python dicts are sets of <<key, value>> pairs with unique keys          *)
(***************************************************************************)
DictSet(d, k, v) == {p \in d : p[1] # k} \cup {<<k, v>>}

DictKeys(d) == {p[1] : p \in d}

DictGet(d, k) == (CHOOSE p \in d : p[1] = k)[2]

RECURSIVE SumLens(_)
SumLens(d) ==
    IF d = {} THEN 0
    ELSE LET p == CHOOSE x \in d : TRUE IN Len(p[2]) + SumLens(d \ {p})

(***************************************************************************)
(* _load_lst: the parsing phase                                            *)
(***************************************************************************)
ParseFail == [ok |-> FALSE, write |-> FALSE, addr |-> 0, val |-> 0]

\* the address token: addr.split()[-1]
AddrToken(toks) == toks[Len(toks)]

\* the value text: val.split(";")[0].strip()
ValueText(val) == Strip(Split(val, ";")[1])

\* one iteration of the parsing loop: ok = FALSE when the line raises
ParseLine(line) ==
    LET parts == Split(line, ":") IN
    IF Len(parts) # 2 THEN ParseFail
    ELSE LET addr == Strip(parts[1])
             val  == ValueText(Strip(parts[2]))
             toks == SplitWS(addr)
         IN  IF toks = <<>> THEN ParseFail
             ELSE IF ~IsHex(AddrToken(toks)) THEN ParseFail
             ELSE IF val = <<>>
                  THEN [ok |-> TRUE, write |-> FALSE,
                        addr |-> HexValue(AddrToken(toks)), val |-> 0]
             ELSE IF ~IsHex(val) THEN ParseFail
             ELSE [ok |-> TRUE, write |-> TRUE,
                   addr |-> HexValue(AddrToken(toks)), val |-> HexValue(val)]

\* (mutant) the first line of an address wins
StoreLine_first(to_write, p) ==
    IF p.addr \in DictKeys(to_write) THEN to_write
    ELSE DictSet(to_write, p.addr, <<p.val>>)

\* to_write[addr] = [int(val, 16)]
StoreLine(to_write, p) == DictSet(to_write, p.addr, <<p.val>>)

\* (mutant) a line that cannot be parsed is skipped
RECURSIVE ParseLines_skip(_, _)
ParseLines_skip(lines, to_write) ==
    IF lines = <<>> THEN [ok |-> TRUE, to_write |-> to_write]
    ELSE LET p == ParseLine(Head(lines)) IN
         ParseLines_skip(Tail(lines),
                         IF p.ok /\ p.write THEN StoreLine(to_write, p) ELSE to_write)

RECURSIVE ParseLines(_, _)
ParseLines(lines, to_write) ==
    IF lines = <<>> THEN [ok |-> TRUE, to_write |-> to_write]
    ELSE LET p == ParseLine(Head(lines)) IN
         IF ~p.ok THEN [ok |-> FALSE, to_write |-> {}]
         ELSE ParseLines(Tail(lines),
                         IF p.write THEN StoreLine(to_write, p) ELSE to_write)

\* for line in data.strip().split("\n"): ...
ParseLst(data) == ParseLines(Split(Strip(data), "\n"), {})

(***************************************************************************)
(* _load_elf: the parsing phase.  An ELF image is what ELFFile decodes it  *)
(* to: malformed, or a sequence of sections [sh_type, sh_addr, data].      *)
(***************************************************************************)
RECURSIVE DataSections(_, _)
DataSections(sections, data_sections) ==
    IF sections = <<>> THEN data_sections
    ELSE LET section == Head(sections) IN
         DataSections(Tail(sections),
                      IF section.sh_type = "SHT_PROGBITS"
                      THEN DictSet(data_sections, section.sh_addr, section.data)
                      ELSE data_sections)

ParseElf(image) ==
    IF image.malformed THEN [ok |-> FALSE, data_sections |-> {}]
    ELSE [ok |-> TRUE, data_sections |-> DataSections(image.sections, {})]

(***************************************************************************)
(* File names: os.path.splitext and str.lower                              *)
(***************************************************************************)
LowerChar(c) ==
    CASE c = "L" -> "l" [] c = "S" -> "s" [] c = "T" -> "t" [] c = "E" -> "e"
      [] c = "F" -> "f" [] c = "B" -> "b" [] c = "I" -> "i" [] c = "N" -> "n"
      [] OTHER -> c

Lower(s) == [i \in 1..Len(s) |-> LowerChar(s[i])]

\* index of the last "." of the name, 0 when there is none
RECURSIVE LastDot(_)
LastDot(name) ==
    IF name = <<>> THEN 0
    ELSE IF name[Len(name)] = "." THEN Len(name)
    ELSE LastDot(SubSeq(name, 1, Len(name) - 1))

\* os.path.splitext(name)[1]: from the last dot, unless the name starts with it
SplitExt(name) ==
    LET d == LastDot(name) IN
    IF d <= 1 THEN <<>> ELSE SubSeq(name, d, Len(name))

ExtLst == <<".", "l", "s", "t">>
ExtElf == <<".", "e", "l", "f">>

ExtBin == <<".", "b", "i", "n">>

\* (mutant) a listing loader registered for .bin as well
Loaders_bin == {<<ExtLst, "lst">>, <<ExtElf, "elf">>, <<ExtBin, "lst">>}

\* get_loaders(): the extensions with a loader
Loaders == {<<ExtLst, "lst">>, <<ExtElf, "elf">>}

(***************************************************************************)
(* The files the loads are tried on                                        *)
(***************************************************************************)
\* "4000 : 00AB ; c"
L_ab == <<"4","0","0","0"," ",":"," ","0","0","A","B"," ",";"," ","c">>
\* "4001 : 00CD"
L_cd == <<"4","0","0","1"," ",":"," ","0","0","C","D">>
\* "4002 :  "  (empty value)
L_empty == <<"4","0","0","2"," ",":"," "," ">>
\* "4000 : 00CD"  (the address of L_ab, another value)
L_dup == <<"4","0","0","0"," ",":"," ","0","0","C","D">>
\* "4000 : ; c"  (empty value before a comment)
L_emptyc == <<"4","0","0","0"," ",":"," ",";"," ","c">>
\* "x 4001 : 00AB"  (text before the address)
L_lbl == <<"x"," ","4","0","0","1"," ",":"," ","0","0","A","B">>
\* "x: 4000 y : 00AB"  (the documented shape, with its leading '<anything>:')
L_pfx == <<"x",":"," ","4","0","0","0"," ","y"," ",":"," ","0","0","A","B">>
\* "4001 : 00CD ; a:b"  (a comment that contains ':')
L_cc == <<"4","0","0","1"," ",":"," ","0","0","C","D"," ",";"," ","a",":","b">>
\* "4000 00AB"  (no ':')
L_nocolon == <<"4","0","0","0"," ","0","0","A","B">>
\* ""  (a blank line)
L_blank == <<>>
\* "zz : 00AB"  (address not hexadecimal)
L_badaddr == <<"z","z"," ",":"," ","0","0","A","B">>
\* "4000 : zz"  (value not hexadecimal)
L_badval == <<"4","0","0","0"," ",":"," ","z","z">>

LineSet == {L_ab, L_cd, L_empty, L_dup, L_emptyc, L_lbl, L_pfx, L_cc,
            L_nocolon, L_blank, L_badaddr, L_badval}

SeqsUpTo(S, n) == UNION {[1..k -> S] : k \in 0..n}

\* the text of a file made of the given lines, each ended by a newline
FileText(lines) == IF lines = <<>> THEN <<>> ELSE Join(lines) \o <<"\n">>

SecA == [sh_type |-> "SHT_PROGBITS", sh_addr |-> 0,  data |-> <<1, 2, 3, 4>>]
SecB == [sh_type |-> "SHT_PROGBITS", sh_addr |-> 16, data |-> <<5, 6, 7, 8, 9, 10>>]
SecC == [sh_type |-> "SHT_PROGBITS", sh_addr |-> 0,  data |-> <<11, 12>>]
SecS == [sh_type |-> "SHT_SYMTAB",   sh_addr |-> 32, data |-> <<13>>]

SectionSet == {SecA, SecB, SecC, SecS}

NoImage == [malformed |-> TRUE, sections |-> <<>>]

ElfImages == {NoImage} \cup
             {[malformed |-> FALSE, sections |-> ss] : ss \in SeqsUpTo(SectionSet, MaxSections)}

NameLst == <<"i", ".", "l", "s", "t">>
NameLstUpper == <<"I", ".", "L", "S", "T">>
NameElf == <<"i", ".", "e", "l", "f">>
NameBin == <<"i", "m", "a", "g", "e", ".", "b", "i", "n">>
NameNoExt == <<"i", "m", "a", "g", "e">>
\* a path at which there is no file
NameMissing == <<"n", "o", ".", "l", "s", "t">>

\* the listing of the documented example: two values and an empty one
ExampleText == FileText(<<L_ab, L_cd, L_empty>>)

File(name, readable, text, image) ==
    [name |-> name, readable |-> readable, text |-> text, image |-> image]

Disks ==
    {File(NameLst, TRUE, FileText(ls), NoImage) : ls \in SeqsUpTo(LineSet, MaxLines)}
    \cup {File(NameLstUpper, TRUE, FileText(<<l>>), NoImage) : l \in LineSet}
    \cup {File(NameElf, TRUE, <<>>, im) : im \in ElfImages}
    \cup {File(n, TRUE, FileText(<<L_ab, L_cd>>), NoImage) : n \in {NameBin, NameNoExt}}
    \cup {File(NameLst, FALSE, FileText(<<L_ab>>), NoImage)}
    \cup {File(NameLst, TRUE, ExampleText, NoImage)}

(***************************************************************************)
(* State of AssemblerLoaderMixin and of the generator it hands out         *)
(***************************************************************************)
NoGen == [state |-> "none", loader |-> "none", text |-> <<>>, image |-> NoImage,
          todo |-> {}, cur |-> <<0, <<>> >>, num |-> 0, length |-> 0,
          err |-> "none"]

\* what external loader code leaves in image_source and image_symbols
SampleSource == {<<16384, <<1, 171, <<"l">> >> >>}
SampleSymbols == {<<"main", 16384>>}

NoQuery == [w |-> 0, addr |-> 0, start |-> 0, len |-> 0, res |-> FALSE]

\* MemoryTableViewer.__init__ and a target whose registers hold some value
Registers == {<<"R", 0>>, <<"R", 1>>}

NoAnnPc == [phase |-> "idle", i |-> 0, read |-> <<>>, before |-> {}]

NoAnnQuery == [start |-> 0, len |-> 0, seen |-> {}, all |-> <<>>, shown |-> <<>>,
               icon |-> <<"none">>, colour |-> <<"none">>, tooltip |-> <<>>]

\* None where a row number <<row>> or an address <<addr>> is expected
NoRow == <<>>

\* the row that _add_empty_row appends
EmptyRow == [addr |-> 0, length |-> 0, data |-> <<>>]

NoSRefresh == [phase |-> "none", follow |-> FALSE, addr |-> NoRow, failed |-> FALSE]

\* a call of SingleMemoryViewer.refresh none of whose parts has run
SingleCall == [NoSRefresh EXCEPT !.phase = "called"]

\* MemoryTableViewer.__init__: one empty row, nothing edited; SingleMemoryViewer
\* with its follow box unchecked
InitEdit ==
    /\ editing_row = NoRow
    /\ rows = <<EmptyRow>>
    /\ selection = NoRow
    /\ selected_addr = 0
    /\ memval = {}
    /\ edits = <<>>
    /\ editor = NoRow
    /\ follow = FALSE
    /\ srefresh = <<>>
    /\ sdone = NoSRefresh
    /\ view_log = <<>>
    /\ addr_expression = ""
    /\ unfollowed = "none"

\* MemoryTableViewer.__init__ and _init_vscrollbar, the table aside
InitTableViewer ==
    /\ self_addr = 0
    /\ addr_step = 1
    /\ scrolling = FALSE
    /\ distance = 0
    /\ addr_before_scroll = 0
    /\ vvalue = 0
    /\ timers = 0
    /\ inflight = <<>>
    /\ events = 0
    /\ drag = <<>>
    /\ InitEdit

\* MemoryTableViewer.__init__ and _init_vscrollbar: no table, the scrollbar centred
InitScroll ==
    /\ memory_table = None
    /\ InitTableViewer

\* the registers of the device and an empty annotation index
InitIndex ==
    /\ regs = [r \in Registers |-> 10]
    /\ symtab = <<>>
    /\ annotations = {}
    /\ ann_pc = NoAnnPc
    /\ ann_complete = {}
    /\ annq = NoAnnQuery

InitViewer ==
    /\ InitScroll
    /\ InitIndex

\* no lazy value and no viewer has been made
NoResult == [kind |-> "none", v |-> 0]

NoWrapper == [made |-> FALSE, override |-> FALSE, isset |-> FALSE, fast |-> FALSE,
              calls |-> 0, own |-> {}, attrs |-> {}, accessed |-> FALSE,
              last |-> NoResult]

NoViewer == [made |-> FALSE, disassemblers |-> 0, mem_bits |-> 0, arch_bits |-> 0,
             show_disassembly |-> FALSE, memory_tables |-> <<>>,
             table_disassembly |-> <<>>, table_cpu_word |-> <<>>, table |-> 0]

InitUtil ==
    /\ lazyw = NoWrapper
    /\ viewer = NoViewer

InitLoader ==
    /\ image_filename = NoName
    /\ image_source = {}
    /\ image_symbols = {}
    /\ mem = {}
    /\ gen = NoGen
    /\ retval = None
    /\ li = "idle"
    /\ last_pull = "none"
    /\ writes = <<>>
    /\ yielded = <<>>
    /\ log = <<>>
    /\ pre_meta = << {}, {} >>
    /\ op = "init"
    /\ q = NoQuery

Init ==
    /\ disk \in Disks
    /\ InitLoader
    /\ InitUtil
    /\ InitViewer

\* no load is in flight (callers serialise loads against one memory)
Quiescent == gen.state \notin {"created", "suspended"} /\ li # "draining"

\* set_image_filename(filename)
SetImageFilename ==
    /\ Quiescent
    /\ \E name \in {disk.name, NameMissing} :
          /\ image_filename # name
          /\ image_filename' = name
    /\ op' = "set_image_filename"
    /\ UNCHANGED <<disk, image_source, image_symbols, mem, gen, retval, li,
                   last_pull, writes, yielded, log, pre_meta, q, restVars>>

\* set_source_filename(filename): forgets the image file
SetSourceFilename ==
    /\ Quiescent
    /\ image_filename # NoName
    /\ image_filename' = NoName
    /\ op' = "set_source_filename"
    /\ UNCHANGED <<disk, image_source, image_symbols, mem, gen, retval, li,
                   last_pull, writes, yielded, log, pre_meta, q, restVars>>

\* a loader that carries source text and symbols fills the two maps
PopulateImageMetadata ==
    /\ Quiescent
    /\ image_source = {} \/ image_symbols = {}
    /\ image_source' = SampleSource
    /\ image_symbols' = SampleSymbols
    /\ op' = "populate"
    /\ UNCHANGED <<disk, image_filename, mem, gen, retval, li, last_pull,
                   writes, yielded, log, pre_meta, q, restVars>>

(***************************************************************************)
(* load_image_                                                             *)
(***************************************************************************)
\* (mutant) nothing is cleared
Cleared_keep(old) == old

\* self.image_source = {} ; self.image_symbols = {}
Cleared(old) == {}

\* the file named by image_filename can be opened and read
CanRead(name) == name = disk.name /\ disk.readable

\* the generator object made by calling a loader: its body has not run yet
NewGen(loader) ==
    [NoGen EXCEPT !.state = "created", !.loader = loader,
                  !.text = disk.text, !.image = disk.image]

\* the body of load_image_: returns a generator, or logs and returns None
LoadImage_Body ==
    /\ pre_meta' = <<image_source, image_symbols>>
    /\ writes' = <<>>
    /\ yielded' = <<>>
    /\ last_pull' = "none"
    /\ IF image_filename = NoName
       THEN \* os.path.splitext(None) raises
            /\ log' = <<"nofilename">>
            /\ retval' = None
            /\ gen' = NoGen
            /\ UNCHANGED <<image_source, image_symbols>>
       ELSE LET ext == Lower(SplitExt(image_filename)) IN
            IF ext \notin DictKeys(Loaders)
            THEN /\ log' = <<"unsupported">>
                 /\ retval' = None
                 /\ gen' = NoGen
                 /\ UNCHANGED <<image_source, image_symbols>>
            ELSE /\ image_source' = Cleared(image_source)
                 /\ image_symbols' = Cleared(image_symbols)
                 /\ IF CanRead(image_filename)
                    THEN /\ log' = <<>>
                         /\ retval' = "generator"
                         /\ gen' = NewGen(DictGet(Loaders, ext))
                    ELSE /\ log' = <<"ioerror">>
                         /\ retval' = None
                         /\ gen' = NoGen
    /\ UNCHANGED <<disk, image_filename, mem, q, restVars>>

\* load_image_() called by a consumer that pulls the progress itself
LoadImage_ ==
    /\ Quiescent
    /\ LoadImage_Body
    /\ li' = "idle"
    /\ op' = "load_image_"

\* load_image(): calls load_image_() and starts iterating over what it returned;
\* iterating over None raises TypeError to the caller
LoadImage ==
    /\ Quiescent
    /\ LoadImage_Body
    /\ li' = IF retval' = None THEN "raised" ELSE "draining"
    /\ op' = "load_image"

(***************************************************************************)
(* The generators of _load_lst and _load_elf                               *)
(***************************************************************************)
\* _load_lst up to its write loop
LstBegin(g) ==
    LET r == ParseLst(g.text) IN
    IF r.ok THEN [g EXCEPT !.todo = r.to_write, !.length = Cardinality(r.to_write)]
    ELSE [g EXCEPT !.err = "parse"]

\* _load_elf up to its write loop
ElfBegin(g) ==
    LET r == ParseElf(g.image) IN
    IF r.ok THEN [g EXCEPT !.todo = r.data_sections, !.length = SumLens(r.data_sections)]
    ELSE [g EXCEPT !.err = "parse"]

GenBegin(g) == IF g.loader = "lst" THEN LstBegin(g) ELSE ElfBegin(g)

\* what the write loop of _load_lst does up to its next yield: the writes it
\* issues and the generator it leaves; to_write.iteritems() may come in any order
LstChoices(g) ==
    {[ws |-> <<p>>, rest |-> [g EXCEPT !.todo = g.todo \ {p}]] : p \in g.todo}

\* (mutant) the yield is in the outer loop: a whole section is written per pull
ElfChoices_section(g) ==
    {[ws |-> [i \in 1..Len(s[2]) |-> <<s[1] + i - 1, <<s[2][i]>> >>],
      rest |-> [g EXCEPT !.todo = g.todo \ {s}]]
     : s \in {x \in g.todo : x[2] # <<>>}}

\* the same for _load_elf: the next byte of the section in progress, or the
\* first byte of any remaining section (data_sections.iteritems(), any order)
ElfChoices(g) ==
    IF g.cur[2] # <<>>
    THEN {[ws |-> << <<g.cur[1], <<Head(g.cur[2])>> >> >>,
           rest |-> [g EXCEPT !.cur = <<g.cur[1] + 1, Tail(g.cur[2])>>]]}
    ELSE {[ws |-> << <<s[1], <<Head(s[2])>> >> >>,
           rest |-> [g EXCEPT !.cur = <<s[1] + 1, Tail(s[2])>>,
                              !.todo = g.todo \ {s}]]
          : s \in {x \in g.todo : x[2] # <<>>}}

Choices(g) == IF g.loader = "lst" THEN LstChoices(g) ELSE ElfChoices(g)

\* yield (num, length), num from enumerate(...)
LstProgress(num, length) == <<num, length>>

\* num += 1 ; yield (num, length)
ElfProgress(num, length) == <<num + 1, length>>

Progress(g) ==
    IF g.loader = "lst" THEN LstProgress(g.num, g.length)
    ELSE ElfProgress(g.num, g.length)

\* write_memory(memory, 1, addr, values) on the target memory
MemWrite(m, w) == DictSet(m, w[1], w[2][1])

RECURSIVE MemWriteAll(_, _)
MemWriteAll(m, ws) ==
    IF ws = <<>> THEN m ELSE MemWriteAll(MemWrite(m, Head(ws)), Tail(ws))

\* (mutant) no try/except around the body of the loaders
LoaderCatches_not == FALSE

\* the loaders wrap their whole body in try/except Exception: log
LoaderCatches == TRUE

\* the generator ends because of exception e
GenRaise(g, e) ==
    /\ gen' = [g EXCEPT !.state = "done", !.err = e]
    /\ IF LoaderCatches
       THEN log' = Append(log, e) /\ last_pull' = "stop"
       ELSE log' = log /\ last_pull' = "raise"
    /\ UNCHANGED <<mem, writes, yielded>>

\* next(generator): run the body up to its next yield, its end, or an exception
GenNext ==
    /\ gen.state \in {"created", "suspended"}
    /\ LET g == IF gen.state = "created" THEN GenBegin(gen) ELSE gen IN
       IF g.err # "none" THEN GenRaise(g, g.err)
       ELSE IF Choices(g) = {}
       THEN /\ gen' = [g EXCEPT !.state = "done"]
            /\ last_pull' = "stop"
            /\ UNCHANGED <<mem, writes, yielded, log>>
       ELSE \E c \in Choices(g) :
              \/ /\ mem' = MemWriteAll(mem, c.ws)
                 /\ writes' = writes \o c.ws
                 /\ yielded' = Append(yielded, Progress(c.rest))
                 /\ gen' = [c.rest EXCEPT !.state = "suspended", !.num = @ + 1]
                 /\ last_pull' = "pair"
                 /\ log' = log
              \/ \* write_memory raises
                 GenRaise(g, "write")
    /\ UNCHANGED <<disk, image_filename, image_source, image_symbols, retval,
                   pre_meta, q, restVars>>

\* the consumer of load_image_ pulls one progress pair
Pull ==
    /\ li # "draining"
    /\ GenNext
    /\ li' = li
    /\ op' = "next"

\* one iteration of the for loop of load_image
Drain ==
    /\ li = "draining"
    /\ GenNext
    /\ li' = CASE last_pull' = "pair" -> "draining"
               [] last_pull' = "stop" -> "returned"
               [] OTHER -> "raised"
    /\ op' = "drain"

\* the consumer of load_image_ drops the generator before its end
Abandon ==
    /\ li # "draining"
    /\ gen.state \in {"created", "suspended"}
    /\ gen' = [gen EXCEPT !.state = "closed"]
    /\ op' = "abandon"
    /\ UNCHANGED <<disk, image_filename, image_source, image_symbols, mem,
                   retval, li, last_pull, writes, yielded, log, pre_meta, q, restVars>>

Next ==
    \/ SetImageFilename
    \/ SetSourceFilename
    \/ PopulateImageMetadata
    \/ LoadImage_
    \/ LoadImage
    \/ Pull
    \/ Drain
    \/ Abandon

Spec == Init /\ [][Next]_vars

(***************************************************************************)
(* MemoryTableViewer.addr_in_range, for a memory of addr_width_bits = w    *)
(***************************************************************************)
Pow2(n) == 2 ^ n

\* x & ((1 << w) - 1), for x >= 0
Mask(x, w) == x % Pow2(w)

\* (mutant) the range is tested as if it never wrapped
addr_in_range_nowrap(w, addr, addr_start, length) ==
    addr_start <= addr /\ addr < addr_start + length

\* (mutant) the end of the range is taken to belong to it
addr_in_range_closed(w, addr, addr_start, length) ==
    LET addr_end        == addr_start + length
        addr_end_masked == Mask(addr_end, w)
        addr_wraps      == addr_end # addr_end_masked
    IN  IF addr_wraps
        THEN addr <= addr_end_masked \/ addr >= addr_start
        ELSE addr_start <= addr /\ addr <= addr_end

addr_in_range(w, addr, addr_start, length) ==
    LET addr_end        == addr_start + length
        addr_end_masked == Mask(addr_end, w)
        addr_wraps      == addr_end # addr_end_masked
    IN  IF addr_wraps
        THEN addr < addr_end_masked \/ addr >= addr_start
        ELSE addr_start <= addr /\ addr < addr_end

\* the 8-bit memory of the documented examples
ByteStarts == {0, 1, 250, 255}
ByteLengths == {0, 1, 6, 10, 255, 256}

\* the queries tried: on small memories every address and start with lengths up
\* to twice the space; on the 8-bit memory every address with chosen ranges
Queries ==
    UNION {[w : {w}, addr : 0..(Pow2(w) - 1), start : 0..(Pow2(w) - 1),
            len : 0..(2 * Pow2(w)), res : {FALSE}] : w \in 1..MaxWidth}
    \cup [w : {8}, addr : 0..(Pow2(8) - 1), start : ByteStarts,
          len : ByteLengths, res : {FALSE}]

\* the file system when no load is made
OneDisk == File(NameLst, TRUE, FileText(<<L_ab>>), NoImage)

InitRange ==
    /\ Init
    /\ disk = OneDisk

\* the query to be made is chosen
ChooseQuery ==
    /\ op = "init"
    /\ q' \in Queries
    /\ op' = "query"
    /\ UNCHANGED <<loaderVars, restVars>>

\* addr_in_range(addr, addr_start, length) is called
AddrInRange ==
    /\ op = "query"
    /\ q' = [q EXCEPT !.res = addr_in_range(q.w, q.addr, q.start, q.len)]
    /\ op' = "addr_in_range"
    /\ UNCHANGED <<loaderVars, restVars>>

NextRange == ChooseQuery \/ AddrInRange

SpecRange == InitRange /\ [][NextRange]_vars

(***************************************************************************)
(* C1: for every width w, start and address in [0, 2^w) and length in      *)
(* 0..2^w, addr_in_range(address, start, length) is true exactly when      *)
(* address = (start + k) mod 2^w for some 0 <= k < length.                 *)
(***************************************************************************)
C1_Containment ==
    (op = "addr_in_range" /\ q.len <= Pow2(q.w)) =>
        (q.res <=> \E k \in 0..(q.len - 1) : q.addr = (q.start + k) % Pow2(q.w))

\* the wrapped range of the documented example contains address 2
C1_Witness ==
    /\ op = "addr_in_range"
    /\ q.w = 8 /\ q.start = 250 /\ q.len = 10 /\ q.addr = 2
    /\ q.res

(***************************************************************************)
(* Auxiliary predicates on the loads                                       *)
(***************************************************************************)
\* the state is the one a call of load_image_ has just produced
JustCalled == op \in {"load_image_", "load_image"}

\* every write issued by the current load is still in memory (for an address
\* written twice, the later write)
WritesInMemory ==
    \A i \in 1..Len(writes) :
        (\A j \in (i + 1)..Len(writes) : writes[j][1] # writes[i][1])
            => <<writes[i][1], writes[i][2][1]>> \in mem

\* every write issued by the current load is of a single word
SingleWordWrites == \A i \in 1..Len(writes) : Len(writes[i][2]) = 1

(***************************************************************************)
(* C2: the progress sequence is lazy and cancellable: no write before the  *)
(* first pull; after k pulls exactly k single-word writes have been issued;*)
(* a drained sequence has issued all `length` writes; an abandoned one     *)
(* keeps its k writes in memory and issues no further write.               *)
(***************************************************************************)
C2_LazyCancellable ==
    /\ gen.state = "created" => writes = <<>>
    /\ gen.state \in {"suspended", "closed"} =>
          /\ Len(writes) = Len(yielded)
          /\ Len(writes) <= gen.length
          /\ SingleWordWrites
          /\ WritesInMemory
    /\ (gen.state = "done" /\ gen.err = "none") =>
          /\ Len(writes) = gen.length
          /\ WritesInMemory

\* a load abandoned after one pull with more left to write
C2_Witness ==
    /\ gen.state = "closed"
    /\ Len(yielded) = 1
    /\ Len(writes) = 1
    /\ gen.length >= 2

(***************************************************************************)
(* C3: when a memory write fails at step k of a load, the k-1 writes       *)
(* already issued stay in memory, no later write is issued, the sequence   *)
(* ends without raising to the consumer and the failure is logged once.    *)
(***************************************************************************)
C3_WriteFailure ==
    (gen.state = "done" /\ gen.err = "write") =>
        /\ last_pull = "stop"
        /\ log = <<"write">>
        /\ Len(writes) = Len(yielded)
        /\ Len(writes) < gen.length
        /\ WritesInMemory

\* an ELF load whose third write failed
C3_Witness ==
    /\ gen.state = "done"
    /\ gen.err = "write"
    /\ gen.loader = "elf"
    /\ Len(writes) = 2
    /\ last_pull = "stop"

(***************************************************************************)
(* C4: loading an image whose lowercased extension is neither .lst nor     *)
(* .elf fails with an unsupported-format error logged exactly once, and    *)
(* issues no write.                                                        *)
(***************************************************************************)
C4_Unsupported ==
    (/\ JustCalled
     /\ image_filename # NoName
     /\ Lower(SplitExt(image_filename)) \notin {ExtLst, ExtElf}) =>
        /\ log = <<"unsupported">>
        /\ retval = None
        /\ gen.state = "none"
        /\ writes = <<>>

\* image.bin was loaded
C4_Witness ==
    /\ JustCalled
    /\ image_filename = NameBin
    /\ log = <<"unsupported">>
    /\ writes = <<>>

(***************************************************************************)
(* C5: load_image never raises to its caller.                              *)
(***************************************************************************)
C5_LoadImageNeverRaises == li # "raised"

(***************************************************************************)
(* C6 as claimed: every call of load_image_, whatever its outcome, clears  *)
(* image_source and image_symbols.                                         *)
(***************************************************************************)
C6_AlwaysCleared ==
    JustCalled => (image_source = {} /\ image_symbols = {})

(***************************************************************************)
(* C6 amended: a call of load_image_ that finds a loader for the extension *)
(* clears image_source and image_symbols, before any write of that load;   *)
(* a call that fails before (unsupported extension, no file name set)      *)
(* leaves both as they were.                                               *)
(***************************************************************************)
FailedAtSelection == log # <<>> /\ log[1] \in {"unsupported", "nofilename"}

C6_ClearedOnceLoaderFound ==
    /\ JustCalled =>
          IF FailedAtSelection
          THEN <<image_source, image_symbols>> = pre_meta
          ELSE image_source = {} /\ image_symbols = {} /\ writes = <<>>
    /\ gen.state \in {"created", "suspended"} =>
          (image_source = {} /\ image_symbols = {})

\* a load that found the maps filled and returned a generator
C6_Witness ==
    /\ JustCalled
    /\ pre_meta = <<SampleSource, SampleSymbols>>
    /\ retval = "generator"
    /\ image_source = {}
    /\ image_symbols = {}

(***************************************************************************)
(* C7: draining the listing loader on well-formed input issues exactly one *)
(* single-word write per distinct address that has a line with a non-empty *)
(* value, with the value of the last such line; lines with an empty value  *)
(* write nothing; the total of every pair is the number of such addresses. *)
(***************************************************************************)
LinesOf(text) == Split(Strip(text), "\n")

\* the indices of the lines that carry a value
ValueLines(lines) == {i \in 1..Len(lines) : ParseLine(lines[i]).write}

\* what the claim expects to be written: for each address, the last value
ExpectedLstWrites(lines) ==
    {<<ParseLine(lines[i]).addr, <<ParseLine(lines[i]).val>> >> :
        i \in {k \in ValueLines(lines) :
                 \A j \in ValueLines(lines) :
                    ParseLine(lines[j]).addr = ParseLine(lines[k]).addr => j <= k}}

C7_ListingWrites ==
    (gen.loader = "lst" /\ gen.state = "done" /\ gen.err = "none") =>
        LET expected == ExpectedLstWrites(LinesOf(gen.text)) IN
        /\ Len(writes) = Cardinality(expected)
        /\ {writes[i] : i \in 1..Len(writes)} = expected
        /\ \A i \in 1..Len(yielded) : yielded[i][2] = Cardinality(expected)

\* the documented example, drained
C7_Witness ==
    /\ gen.loader = "lst"
    /\ gen.state = "done"
    /\ gen.err = "none"
    /\ gen.text = ExampleText
    /\ {writes[i] : i \in 1..Len(writes)} = {<<16384, <<171>> >>, <<16385, <<205>> >>}
    /\ Len(yielded) = 2
    /\ yielded[1][2] = 2

(***************************************************************************)
(* C8: for every ELF image the progress total is the sum of the sizes of   *)
(* all SHT_PROGBITS sections, draining issues that many single-byte writes,*)
(* each section at consecutive addresses from its base, in section order   *)
(* then byte order.                                                        *)
(***************************************************************************)
IsProgbits(section) == section.sh_type = "SHT_PROGBITS"

RECURSIVE SectionWrites(_)
SectionWrites(sections) ==
    IF sections = <<>> THEN <<>>
    ELSE LET s == Head(sections) IN
         [i \in 1..Len(s.data) |-> <<s.sh_addr + i - 1, <<s.data[i]>> >>]
            \o SectionWrites(Tail(sections))

C8_ElfAllSections ==
    (gen.loader = "elf" /\ gen.state = "done" /\ gen.err = "none") =>
        LET expected == SectionWrites(SelectSeq(gen.image.sections, IsProgbits)) IN
        /\ gen.length = Len(expected)
        /\ writes = expected

(***************************************************************************)
(* C9: in both loaders the k-th pair pulled is (k, total), total being     *)
(* constant, and the last pair of a completed load has amount_done = total.*)
(***************************************************************************)
C9_ProgressCounts ==
    /\ \A k \in 1..Len(yielded) :
          yielded[k][1] = k /\ yielded[k][2] = gen.length
    /\ (gen.state = "done" /\ gen.err = "none" /\ yielded # <<>>) =>
          yielded[Len(yielded)][1] = yielded[Len(yielded)][2]

(***************************************************************************)
(* C10: the listing loader accepts every line of the documented shape      *)
(* '<anything>: <address> <anything> : <value>[ ; <comment>]', whatever    *)
(* the prefix and the comment are, also when they contain ':'.             *)
(***************************************************************************)
DocumentedLines == {L_ab, L_cd, L_empty, L_dup, L_emptyc, L_lbl, L_pfx, L_cc}

DocumentedTexts == {FileText(ls) : ls \in SeqsUpTo(DocumentedLines, MaxLines) \ {<<>>}}

C10_AcceptsDocumentedShape ==
    (gen.loader = "lst" /\ gen.state = "done" /\ gen.text \in DocumentedTexts) =>
        gen.err # "parse"

(***************************************************************************)
(* The annotation overlay of MemoryTableViewer (src/view/memory.py):       *)
(* _refresh_annotation_data rebuilds self.annotations, get_annotation      *)
(* summarises the annotations that fall in a range of addresses.           *)
(***************************************************************************)

\* what the annotation overlay never touches
annRest == <<loaderVars, q, scrollVars, editVars, singleVars, utilVars>>

\* the memory the viewer shows
TheMemory == [name |-> "memory", addr_width_bits |-> 8]

\* system.get_register_pointers(memory)
RegisterPointers == << <<"bank", <<"R", 0>> >>, <<"bank", <<"R", 1>> >> >>

\* values the pointer registers take while the target runs
RegValues == {10, 252}

MAX_TOOLTIP_ENTRIES == 20

MaxSymbols == 26

\* system.get_symbol_pointers(memory): most symbols point to address 10
SymbolAddr(i) == IF i = 2 THEN 20 ELSE IF i = 3 THEN 2 ELSE 10

SymbolTable(k) == [i \in 1..k |-> << <<"s", i>>, SymbolAddr(i) >>]

SymbolCounts == {0, 3, MAX_TOOLTIP_ENTRIES + 1, MaxSymbols}

SymbolTables == {SymbolTable(k) : k \in SymbolCounts}

\* Annotation.get_priority(): an integer that fits the low byte of the sort key
PriorityLevels == <<5, 1, 255, 0>>

RegisterPriority(register) == IF register[2] = 0 THEN 5 ELSE 255

SymbolPriority(symbol_name) == PriorityLevels[(symbol_name[2] % Len(PriorityLevels)) + 1]

RegisterAnnotation(value, register_bank, register) ==
    [kind |-> "register", addr |-> value, bank |-> register_bank,
     name |-> register, priority |-> RegisterPriority(register)]

SymbolAnnotation(symbol_value, symbol_name) ==
    [kind |-> "symbol", addr |-> symbol_value, bank |-> "",
     name |-> symbol_name, priority |-> SymbolPriority(symbol_name)]

\* Annotation.get_pointer_pixbuf(), get_colour() and get_tooltip()
PointerPixbuf(a) == <<"pixbuf", a.kind, a.name>>

Colour(a) == <<"colour", a.kind, a.name>>

Tooltip(a) == [line |-> "entry", kind |-> a.kind, name |-> a.name, addr |-> a.addr]

POINTER_DEFAULT == <<"POINTER_DEFAULT">>

\* self.annotations.setdefault(value, []).append(annotation)
SetDefaultAppend(d, value, annotation) ==
    IF value \in DictKeys(d)
    THEN DictSet(d, value, Append(DictGet(d, value), annotation))
    ELSE DictSet(d, value, <<annotation>>)

\* (mutant) the old dictionary is kept
ClearAnnotations_keep(d) == d

\* self.annotations = {}
ClearAnnotations(d) == {}

InitAnn ==
    /\ disk = OneDisk
    /\ InitLoader
    /\ InitUtil
    /\ InitScroll
    /\ regs \in [Registers -> RegValues]
    /\ symtab \in SymbolTables
    /\ annotations = {}
    /\ ann_pc = NoAnnPc
    /\ ann_complete = {}
    /\ annq = NoAnnQuery

\* no _refresh_annotation_data call is running (the callers serialise refreshes)
NoRefreshRunning == ann_pc.phase \in {"idle", "done", "aborted"}

\* the target changes a pointer register
RegisterChanges ==
    /\ \E r \in Registers : \E v \in RegValues \ {regs[r]} :
          regs' = [regs EXCEPT ![r] = v]
    /\ annq' = NoAnnQuery
    /\ op' = "register_changes"
    /\ UNCHANGED <<symtab, annotations, ann_pc, ann_complete, annRest>>

\* _refresh_annotation_data is entered: the index is cleared
RefreshAnnotationData ==
    /\ NoRefreshRunning
    /\ annotations' = ClearAnnotations(annotations)
    /\ ann_pc' = [phase |-> "registers", i |-> 1, read |-> <<>>, before |-> annotations]
    /\ annq' = NoAnnQuery
    /\ op' = "_refresh_annotation_data"
    /\ UNCHANGED <<regs, symtab, ann_complete, annRest>>

\* one iteration of the register loop, read_register returning a value
ReadRegister ==
    /\ ann_pc.phase = "registers"
    /\ LET register_bank == RegisterPointers[ann_pc.i][1]
           register      == RegisterPointers[ann_pc.i][2]
           value         == regs[register]
           annotation    == RegisterAnnotation(value, register_bank, register)
       IN  /\ annotations' = SetDefaultAppend(annotations, value, annotation)
           /\ ann_pc' = [ann_pc EXCEPT
                  !.phase = IF ann_pc.i = Len(RegisterPointers) THEN "symbols" ELSE "registers",
                  !.i     = ann_pc.i + 1,
                  !.read  = Append(ann_pc.read, value)]
    /\ annq' = NoAnnQuery
    /\ op' = "read_register"
    /\ UNCHANGED <<regs, symtab, ann_complete, annRest>>

\* one iteration of the register loop, read_register raising: nothing catches it
ReadRegisterFails ==
    /\ ann_pc.phase = "registers"
    /\ ann_pc' = [ann_pc EXCEPT !.phase = "aborted"]
    /\ annq' = NoAnnQuery
    /\ op' = "read_register_fails"
    /\ UNCHANGED <<regs, symtab, annotations, ann_complete, annRest>>

\* the index after the symbol loop has handled symbol_pointers[i..]
RECURSIVE InsertSymbolsFrom(_, _, _)
InsertSymbolsFrom(d, symbol_pointers, i) ==
    IF i > Len(symbol_pointers) THEN d
    ELSE LET symbol_name  == symbol_pointers[i][1]
             symbol_value == symbol_pointers[i][2]
             annotation   == SymbolAnnotation(symbol_value, symbol_name)
         IN  InsertSymbolsFrom(SetDefaultAppend(d, symbol_value, annotation),
                               symbol_pointers, i + 1)

\* the symbol loop, which waits for nothing, and the return
InsertSymbols ==
    /\ ann_pc.phase = "symbols"
    /\ annotations' = InsertSymbolsFrom(annotations, symtab, 1)
    /\ ann_pc' = [ann_pc EXCEPT !.phase = "done"]
    /\ ann_complete' = annotations'
    /\ annq' = NoAnnQuery
    /\ op' = "insert_symbols"
    /\ UNCHANGED <<regs, symtab, annRest>>

\* a | b for non-negative integers
RECURSIVE BitOr(_, _)
BitOr(a, b) ==
    IF a = 0 THEN b
    ELSE IF b = 0 THEN a
    ELSE (IF a % 2 = 1 \/ b % 2 = 1 THEN 1 ELSE 0) + 2 * BitOr(a \div 2, b \div 2)

\* (mutant) the address is shifted by half a byte only
SortKey_nibble(a) == BitOr(a.addr * Pow2(4), 255 - a.priority)

\* lambda a: (a.addr<<8) | (0xFF-a.get_priority())
SortKey(a) == BitOr(a.addr * Pow2(8), 255 - a.priority)

\* sorted(): the elements of s by ascending key, equal keys in their order in s
RECURSIVE InsertByKey(_, _)
InsertByKey(s, p) ==
    IF s = <<>> THEN <<p>>
    ELSE IF s[Len(s)][1] <= p[1] THEN Append(s, p)
    ELSE Append(InsertByKey(SubSeq(s, 1, Len(s) - 1), p), s[Len(s)])

RECURSIVE SortPairs(_)
SortPairs(s) ==
    IF s = <<>> THEN <<>>
    ELSE InsertByKey(SortPairs(SubSeq(s, 1, Len(s) - 1)), s[Len(s)])

Sorted(all_annotations) ==
    LET keyed  == [i \in 1..Len(all_annotations) |->
                      <<SortKey(all_annotations[i]), all_annotations[i]>>]
        sorted == SortPairs(keyed)
    IN  [i \in 1..Len(sorted) |-> sorted[i][2]]

\* (mutant) the first annotation found is taken
MaxAnnotation_first(all_annotations) == all_annotations[1]

\* max(all_annotations, key=priority): the first one of the highest priority
MaxAnnotation(all_annotations) ==
    all_annotations[CHOOSE i \in 1..Len(all_annotations) :
        \A j \in 1..Len(all_annotations) :
            /\ all_annotations[j].priority <= all_annotations[i].priority
            /\ j < i => all_annotations[j].priority < all_annotations[i].priority]

\* (mutant) every entry of the index is taken
Covering_all(d, addr_start, length) == d

\* the entries of the index whose address lands in the range
Covering(d, addr_start, length) ==
    {p \in d : addr_in_range(TheMemory.addr_width_bits, p[1], addr_start, length)}

\* the orders in which iteritems() may visit a set of entries
IterOrders(entries) ==
    {f \in [1..Cardinality(entries) -> entries] :
        \A i, j \in 1..Cardinality(entries) : i # j => f[i] # f[j]}

\* all_annotations after the loop has visited the entries in this order
RECURSIVE Extend(_, _)
Extend(order, n) ==
    IF n = 0 THEN <<>> ELSE Extend(order, n - 1) \o order[n][2]

\* (mutant) one entry too many is rendered
Shown_more(sorted) ==
    SubSeq(sorted, 1, IF Len(sorted) < MAX_TOOLTIP_ENTRIES + 1
                      THEN Len(sorted) ELSE MAX_TOOLTIP_ENTRIES + 1)

\* sorted(...)[:MAX_TOOLTIP_ENTRIES]
Shown(sorted) ==
    SubSeq(sorted, 1, IF Len(sorted) < MAX_TOOLTIP_ENTRIES
                      THEN Len(sorted) ELSE MAX_TOOLTIP_ENTRIES)

\* the line "+ %d other%s not shown"
HiddenLine(hidden_entries) ==
    [line |-> "hidden", count |-> hidden_entries,
     plural |-> IF hidden_entries = 1 THEN "" ELSE "s"]

\* get_annotation(addr_start, length), the index being visited in the given order;
\* the tooltip is the sequence of the lines that are joined by "\n"
get_annotation(d, addr_start, length, order) ==
    LET all_annotations == Extend(order, Cardinality(Covering(d, addr_start, length)))
        sorted          == Sorted(all_annotations)
        shown           == Shown(sorted)
        hidden_entries  == Len(all_annotations) - MAX_TOOLTIP_ENTRIES
        max_annotation  == MaxAnnotation(all_annotations)
    IN  IF all_annotations # <<>>
        THEN [start |-> addr_start, len |-> length, seen |-> d,
              all |-> all_annotations, shown |-> shown,
              icon |-> PointerPixbuf(max_annotation),
              colour |-> Colour(max_annotation),
              tooltip |-> [i \in 1..Len(shown) |-> Tooltip(shown[i])] \o
                          (IF hidden_entries > 0
                           THEN <<HiddenLine(hidden_entries)>> ELSE <<>>)]
        ELSE [start |-> addr_start, len |-> length, seen |-> d,
              all |-> <<>>, shown |-> <<>>,
              icon |-> POINTER_DEFAULT, colour |-> <<"#000000">>, tooltip |-> <<>>]

\* the ranges asked for: <<addr_start, length>>
AnnRanges == {<<10, 1>>, <<10, 11>>, <<250, 10>>, <<11, 5>>, <<0, 256>>}

\* get_annotation is called, by the foreground half of a refresh; calls made in
\* a row see the same index, so that one call stands for them
GetAnnotation ==
    /\ op # "get_annotation"
    /\ \E r \in AnnRanges : \E order \in IterOrders(Covering(annotations, r[1], r[2])) :
          annq' = get_annotation(annotations, r[1], r[2], order)
    /\ op' = "get_annotation"
    /\ UNCHANGED <<regs, symtab, annotations, ann_pc, ann_complete, annRest>>

NextAnn ==
    \/ RegisterChanges
    \/ RefreshAnnotationData
    \/ ReadRegister
    \/ ReadRegisterFails
    \/ InsertSymbols
    \/ GetAnnotation

SpecAnn == InitAnn /\ [][NextAnn]_vars

(***************************************************************************)
(* C11: after an annotation refresh in which every register read           *)
(* succeeded, the index holds exactly one RegisterAnnotation per register  *)
(* pointer, under the value read from that register, and exactly one       *)
(* SymbolAnnotation per symbol pointer, under the symbol's value, and      *)
(* nothing that an earlier refresh had put there.                          *)
(***************************************************************************)
ExpectedAnnotations(read) ==
    [i \in 1..Len(RegisterPointers) |->
        RegisterAnnotation(read[i], RegisterPointers[i][1], RegisterPointers[i][2])] \o
    [i \in 1..Len(symtab) |-> SymbolAnnotation(symtab[i][2], symtab[i][1])]

AtAddress(s, addr) == SelectSeq(s, LAMBDA a : a.addr = addr)

ExpectedIndex(read) ==
    LET all == ExpectedAnnotations(read) IN
    {<<all[i].addr, AtAddress(all, all[i].addr)>> : i \in 1..Len(all)}

C11_RebuiltFromScratch ==
    ann_pc.phase = "done" =>
        /\ Len(ann_pc.read) = Len(RegisterPointers)
        /\ annotations = ExpectedIndex(ann_pc.read)
        /\ SumLens(annotations) = Len(RegisterPointers) + Len(symtab)

\* a refresh has completed over an index that annotated an address which is
\* annotated no more
C11_Witness ==
    /\ ann_pc.phase = "done"
    /\ symtab # <<>>
    /\ \E p \in ann_pc.before : p[1] \notin DictKeys(annotations)

(***************************************************************************)
(* C12: a register read that fails during an annotation refresh does not   *)
(* abort the refresh: the annotations of the other register pointers and   *)
(* of all symbol pointers are in the index when the refresh has ended.     *)
(***************************************************************************)
Annotated(d) == UNION {{p[2][i] : i \in 1..Len(p[2])} : p \in d}

C12_FailedReadSkipped ==
    ann_pc.phase = "aborted" =>
        /\ \A i \in 1..Len(symtab) :
              SymbolAnnotation(symtab[i][2], symtab[i][1]) \in Annotated(annotations)
        /\ \A i \in (1..Len(RegisterPointers)) \ {ann_pc.i} :
              \E a \in Annotated(annotations) :
                  a.kind = "register" /\ a.name = RegisterPointers[i][2]

(***************************************************************************)
(* C13: a get_annotation call, wherever it falls between the steps of      *)
(* _refresh_annotation_data, sees the complete index of a refresh that ran *)
(* to its end, never an empty or partly filled one.                        *)
(***************************************************************************)
C13_AtomicReplace ==
    op = "get_annotation" => annq.seen = ann_complete

(***************************************************************************)
(* C14: get_annotation(addr_start, length) bases its result on exactly the *)
(* annotations whose address satisfies addr_in_range(address, addr_start,  *)
(* length); when there is none it returns the default icon, the colour     *)
(* #000000 and an empty description.                                       *)
(***************************************************************************)
Matches(d, addr_start, length) ==
    {a \in Annotated(d) :
        addr_in_range(TheMemory.addr_width_bits, a.addr, addr_start, length)}

Elements(s) == {s[i] : i \in 1..Len(s)}

C14_BasedOnMatches ==
    op = "get_annotation" =>
        LET matches == Matches(annq.seen, annq.start, annq.len) IN
        /\ Elements(annq.all) = matches
        /\ Len(annq.all) = Cardinality(matches)
        /\ matches = {} =>
              /\ annq.icon = POINTER_DEFAULT
              /\ annq.colour = <<"#000000">>
              /\ annq.tooltip = <<>>
        /\ matches # {} =>
              /\ annq.icon \in {PointerPixbuf(a) : a \in matches}
              /\ annq.colour \in {Colour(a) : a \in matches}
              /\ \A i \in 1..Len(annq.tooltip) :
                    annq.tooltip[i].line = "entry" =>
                        annq.tooltip[i] \in {Tooltip(a) : a \in matches}

\* a range that wraps around the end of the memory matched some of the
\* annotations of the index and left others out
C14_Witness ==
    /\ op = "get_annotation"
    /\ annq.start + annq.len > Pow2(TheMemory.addr_width_bits)
    /\ annq.all # <<>>
    /\ Len(annq.all) < SumLens(annq.seen)

(***************************************************************************)
(* C15: when at least one annotation covers the range, the icon and the    *)
(* colour both come from one annotation whose priority is the maximum      *)
(* among the matches.                                                      *)
(***************************************************************************)
C15_IconOfMaxPriority ==
    (op = "get_annotation" /\ annq.all # <<>>) =>
        \E a \in Elements(annq.all) :
            /\ \A b \in Elements(annq.all) : b.priority <= a.priority
            /\ annq.icon = PointerPixbuf(a)
            /\ annq.colour = Colour(a)

\* annotations of priority 1 and 5 at one address are the matches
C15_Witness ==
    /\ op = "get_annotation"
    /\ Len(annq.all) = 2
    /\ \E a, b \in Elements(annq.all) :
          /\ a.addr = b.addr
          /\ a.priority = 1
          /\ b.priority = 5
          /\ annq.icon = PointerPixbuf(b)

(***************************************************************************)
(* C16: the description lists the matches by ascending address and, at     *)
(* one address, by descending priority, whatever the order of insertion:   *)
(* the key (addr<<8) | (0xFF - priority) orders two annotations as the     *)
(* pair (address, 255 - priority) does.                                    *)
(***************************************************************************)
PairLess(a, b) ==
    \/ a.addr < b.addr
    \/ a.addr = b.addr /\ 255 - a.priority < 255 - b.priority

C17_BoundedDescription ==
    op = "get_annotation" =>
        LET n       == Len(annq.all)
            entries == SelectSeq(annq.tooltip, LAMBDA l : l.line = "entry")
            hidden  == SelectSeq(annq.tooltip, LAMBDA l : l.line = "hidden")
            rest    == Elements(annq.all) \ Elements(annq.shown)
        IN  /\ Len(entries) = IF n < MAX_TOOLTIP_ENTRIES THEN n ELSE MAX_TOOLTIP_ENTRIES
            /\ entries = [i \in 1..Len(entries) |-> Tooltip(annq.shown[i])]
            /\ Len(annq.shown) = Len(entries)
            /\ Elements(annq.shown) \subseteq Elements(annq.all)
            /\ \A a \in rest : \A b \in Elements(annq.shown) : ~PairLess(a, b)
            /\ Len(hidden) = (IF n > MAX_TOOLTIP_ENTRIES THEN 1 ELSE 0)
            /\ n > MAX_TOOLTIP_ENTRIES =>
                  /\ annq.tooltip[Len(annq.tooltip)].line = "hidden"
                  /\ annq.tooltip[Len(annq.tooltip)].count = n - MAX_TOOLTIP_ENTRIES
                  /\ annq.tooltip[Len(annq.tooltip)].plural =
                        (IF n = MAX_TOOLTIP_ENTRIES + 1 THEN "" ELSE "s")

\* 25 matches: 20 entries and "+ 5 others not shown"
C17_Witness ==
    /\ op = "get_annotation"
    /\ Len(annq.all) = MAX_TOOLTIP_ENTRIES + 5
    /\ Len(annq.tooltip) = MAX_TOOLTIP_ENTRIES + 1
    /\ annq.tooltip[Len(annq.tooltip)] = HiddenLine(5)

(***************************************************************************)
(* C18: for every width w, start in [0, 2^w) and length >= 0,              *)
(* addr_in_range(start, start, length) is true iff length > 0, and         *)
(* addr_in_range((start + length) mod 2^w, start, length) is false: the    *)
(* upper bound is exclusive.                                               *)
(***************************************************************************)
StartIsInside ==
    q.addr = q.start => (q.res <=> q.len > 0)

C18_ExclusiveUpperBound ==
    op = "addr_in_range" =>
        /\ StartIsInside
        /\ q.addr = Mask(q.start + q.len, q.w) => ~q.res

(***************************************************************************)
(* C18, amended: addr_in_range(start, start, length) is true iff           *)
(* length > 0; addr_in_range((start + length) mod 2^w, start, length) is   *)
(* false for every length < 2^w and true for length = 2^w, where the range *)
(* is the whole address space and its end falls on its start.              *)
(***************************************************************************)
C18_ExclusiveBelowFullLength ==
    op = "addr_in_range" =>
        /\ StartIsInside
        /\ (q.addr = Mask(q.start + q.len, q.w) /\ q.len < Pow2(q.w)) => ~q.res
        /\ (q.addr = Mask(q.start + q.len, q.w) /\ q.len = Pow2(q.w)) => q.res

\* the end of a range that wraps, and is shorter than the address space, was asked for
C18_Witness ==
    /\ op = "addr_in_range"
    /\ q.len > 0
    /\ q.len < Pow2(q.w)
    /\ q.start + q.len > Pow2(q.w)
    /\ q.addr = Mask(q.start + q.len, q.w)
    /\ ~q.res

(***************************************************************************)
(* Scrolling and refreshing in MemoryTableViewer (src/view/memory.py).     *)
(* The floating-point distance is kept in tenths; the scrollbar's offset   *)
(* is given by the value that lines 737-748 of _on_scroll_tick compute     *)
(* from it, an integer in -MAX_SCROLL_SPEED..MAX_SCROLL_SPEED here.        *)
(***************************************************************************)

\* what scrolling never touches
scrollRest == <<loaderVars, q, regs, symtab, ann_pc, ann_complete, annq, utilVars>>

MAX_SCROLL_SPEED == 16

\* numbers of events, of timers and of refreshes in flight that are explored
MaxEvents == 5

MaxTimers == 2

MaxInFlight == 2

\* offsets of the scrollbar that are tried: centred, a little, more, fully deflected
ScrollValues == {0, 1, -1, 3, -3, MAX_SCROLL_SPEED, -MAX_SCROLL_SPEED}

\* the memory tables, and the length of the row that get_data returns first at an address
MemoryTables == {"MemoryWordTable", "DisassemblyTable", "SourceTable"}

RowLength(table, a) ==
    IF table = "MemoryWordTable" THEN 1
    ELSE IF table = "DisassemblyTable" THEN (IF a % 3 = 0 THEN 2 ELSE 1)
    ELSE (IF a % 2 = 0 THEN 0 ELSE 3)

Abs(x) == IF x >= 0 THEN x ELSE -x

\* (int(x >= 0) * 2) - 1
SignOf(x) == (IF x >= 0 THEN 1 ELSE 0) * 2 - 1

\* (mutant) the further the scrollbar is pulled, the smaller the step
Delta_slowing(value) == Pow2(MAX_SCROLL_SPEED - Abs(value))

\* delta = 2**abs(value) / 10.0, in tenths
Delta(value) == Pow2(Abs(value))

\* (mutant) the distance grows whatever the offset is
TickDistance_up(d, value) == d + Delta(value)

\* lines 757-758: the distance after a tick
TickDistance(d, value) ==
    IF value > 0 THEN d + Delta(value)
    ELSE IF value < 0 THEN d - Delta(value)
    ELSE d

\* (mutant) the distance is truncated
rounded_distance_trunc(d) == (Abs(d) \div 10) * SignOf(d)

\* int(ceil(abs(self.distance))) * sign, the distance being in tenths
rounded_distance(d) == ((Abs(d) + 9) \div 10) * SignOf(d)

\* (mutant) the length of the first row is taken as it is
AddrStep_unclamped(length) == length

\* max(1, memory_table_data[0][1])
AddrStep(length) == IF 1 >= length THEN 1 ELSE length

\* self.refresh() is called: nothing happens without a table, else a refresh starts
RefreshCalled(pending) ==
    IF memory_table = None THEN pending
    ELSE Append(pending, [phase |-> "called", addr |-> 0, length |-> 0, data |-> <<>>])

\* memory_table.get_data(a, n): n rows from address a on, each with the value of its first word
RECURSIVE GetData(_, _, _)
GetData(table, a, n) ==
    IF n = 0 THEN <<>>
    ELSE <<[addr |-> a, length |-> RowLength(table, a),
            data |-> <<IF a \in memval THEN 1 ELSE 0>>]>> \o
         GetData(table, a + RowLength(table, a), n - 1)

\* lines 1051-1053: the row is being edited and is where it was
Locked(store, data, editing, row) ==
    /\ editing = <<row - 1>>
    /\ data[row].addr = store[row].addr
    /\ data[row].length = store[row].length

\* (mutant) the row that is edited is updated like the others
UpdatedRows_all(store, data, editing) ==
    [row \in 1..Len(store) |-> IF row > Len(data) THEN store[row] ELSE data[row]]

\* the loop of lines 1038-1081 on the list store (address, length and data columns)
UpdatedRows(store, data, editing) ==
    [row \in 1..Len(store) |->
        IF row > Len(data) \/ Locked(store, data, editing, row)
        THEN store[row] ELSE data[row]]

\* selected_row after the loop has handled the rows from `row` on:
\* <<>> for None, <<-1>> when an edited row was skipped
RECURSIVE SelectedRow(_, _, _, _, _)
SelectedRow(store, data, editing, row, selected_row) ==
    IF row > Len(store) \/ row > Len(data) THEN selected_row
    ELSE IF Locked(store, data, editing, row)
         THEN SelectedRow(store, data, editing, row + 1, <<-1>>)
    ELSE IF /\ selected_row = NoRow
            /\ addr_in_range(TheMemory.addr_width_bits, selected_addr,
                             data[row].addr, data[row].length)
         THEN SelectedRow(store, data, editing, row + 1, <<row - 1>>)
    ELSE SelectedRow(store, data, editing, row + 1, selected_row)

\* lines 1084-1091: the selection after the refresh
Selected(current, selected_row) ==
    IF selected_row = NoRow THEN NoRow
    ELSE IF selected_row = <<-1>> THEN current
    ELSE selected_row

\* emit("scrolled"): SingleMemoryViewer._on_scroll unchecks the follow box, and
\* unchecking it makes _on_follow_toggled call SingleMemoryViewer.refresh
Scrolled ==
    /\ follow' = FALSE
    /\ unfollowed' = IF follow THEN "scroll" ELSE unfollowed
    /\ srefresh' = IF follow THEN Append(srefresh, SingleCall) ELSE srefresh

RemoveAt(s, i) == SubSeq(s, 1, i - 1) \o SubSeq(s, i + 1, Len(s))

InitView ==
    /\ disk = OneDisk
    /\ InitLoader
    /\ InitUtil
    /\ InitViewer

\* set_memory_table(memory_table)
SetMemoryTable ==
    /\ events < MaxEvents
    /\ \E t \in MemoryTables \ {memory_table} : memory_table' = t
    /\ events' = events + 1
    /\ editing_row' = NoRow
    /\ rows' = <<EmptyRow>>
    /\ selection' = NoRow
    /\ op' = "set_memory_table"
    /\ UNCHANGED <<self_addr, addr_step, scrolling, distance, addr_before_scroll,
                   vvalue, timers, inflight, annotations, drag, scrollRest,
                   selected_addr, memval, edits, editor, singleVars>>

\* _on_vscrollbar_start: the button is pressed on the scrollbar
VScrollbarStart ==
    /\ events < MaxEvents
    /\ timers < MaxTimers
    /\ scrolling' = TRUE
    /\ timers' = timers + 1
    /\ distance' = 0
    /\ drag' = <<>>
    /\ addr_before_scroll' = self_addr
    /\ events' = events + 1
    /\ Scrolled
    /\ op' = "_on_vscrollbar_start"
    /\ UNCHANGED <<memory_table, self_addr, addr_step, vvalue, inflight,
                   annotations, scrollRest, editVars, singleRest>>

\* the slider is dragged; _on_vadjustment_changed leaves it where it is while scrolling
MoveScrollbar ==
    /\ events < MaxEvents
    /\ scrolling
    /\ vvalue' \in ScrollValues \ {vvalue}
    /\ events' = events + 1
    /\ op' = "_on_vadjustment_changed"
    /\ UNCHANGED <<memory_table, self_addr, addr_step, scrolling, distance,
                   addr_before_scroll, timers, inflight, annotations, drag, scrollRest,
                   editVars, singleVars>>

\* the body of _on_scroll_tick below its guard (lines 736-772)
Tick ==
    /\ distance' = TickDistance(distance, vvalue)
    /\ self_addr' = addr_before_scroll + rounded_distance(distance')
    /\ inflight' = RefreshCalled(inflight)
    /\ drag' = Append(drag, [v |-> vvalue, before |-> distance, after |-> distance'])
    /\ editing_row' = NoRow
    /\ Scrolled

\* _on_scroll_tick, called by a timer while scrolling
ScrollTick ==
    /\ events < MaxEvents
    /\ Len(inflight) < MaxInFlight
    /\ timers > 0
    /\ scrolling
    /\ Tick
    /\ events' = events + 1
    /\ op' = "_on_scroll_tick"
    /\ UNCHANGED <<memory_table, addr_step, scrolling, addr_before_scroll, vvalue,
                   timers, annotations, scrollRest, editRest, singleRest>>

\* _on_scroll_tick, called by a timer after the scrolling has stopped: the timer ends
ScrollTickStops ==
    /\ timers > 0
    /\ ~scrolling
    /\ timers' = timers - 1
    /\ op' = "_on_scroll_tick_stops"
    /\ UNCHANGED <<memory_table, self_addr, addr_step, scrolling, distance,
                   addr_before_scroll, vvalue, inflight, events, annotations, drag, scrollRest,
                   editVars, singleVars>>

\* _on_vscrollbar_end: the button is released; a last tick, and the scrollbar is centred
VScrollbarEnd ==
    /\ events < MaxEvents
    /\ Len(inflight) < MaxInFlight
    /\ scrolling
    /\ Tick
    /\ scrolling' = FALSE
    /\ vvalue' = 0
    /\ events' = events + 1
    /\ op' = "_on_vscrollbar_end"
    /\ UNCHANGED <<memory_table, addr_step, addr_before_scroll, timers,
                   annotations, scrollRest, editRest, singleRest>>

\* _on_scroll_event with the wheel turned up or down
ScrollEvent ==
    /\ events < MaxEvents
    /\ Len(inflight) < MaxInFlight
    /\ \E direction \in {"SCROLL_UP", "SCROLL_DOWN"} :
          LET delta == IF direction = "SCROLL_UP" THEN -addr_step ELSE addr_step
          IN  self_addr' = self_addr + delta
    /\ editing_row' = NoRow
    /\ Scrolled
    /\ inflight' = RefreshCalled(inflight)
    /\ events' = events + 1
    /\ op' = "_on_scroll_event"
    /\ UNCHANGED <<memory_table, addr_step, scrolling, distance, addr_before_scroll,
                   vvalue, timers, annotations, drag, scrollRest, editRest, singleRest>>

\* _on_scroll_event with the wheel turned left or right: delta is not bound
\* when line 719 reads it, and the handler ends with that error
ScrollEventRaises ==
    /\ events < MaxEvents
    /\ events' = events + 1
    /\ op' = "_on_scroll_event_raises"
    /\ UNCHANGED <<memory_table, self_addr, addr_step, scrolling, distance,
                   addr_before_scroll, vvalue, timers, inflight, annotations, drag, scrollRest,
                   editVars, singleVars>>

\* the index after the register loop has handled register_pointers[i..]
RECURSIVE InsertRegistersFrom(_, _, _)
InsertRegistersFrom(d, register_pointers, i) ==
    IF i > Len(register_pointers) THEN d
    ELSE LET register_bank == register_pointers[i][1]
             register      == register_pointers[i][2]
             value         == regs[register]
             annotation    == RegisterAnnotation(value, register_bank, register)
         IN  InsertRegistersFrom(SetDefaultAppend(d, value, annotation),
                                 register_pointers, i + 1)

\* the background half of a refresh (lines 1020-1024): the annotations are
\* rebuilt and the rows at the address shown now are fetched
RefreshFetch ==
    /\ \E i \in 1..Len(inflight) :
          /\ inflight[i].phase = "called"
          /\ inflight' = [inflight EXCEPT ![i] =
                [phase |-> "fetched", addr |-> self_addr,
                 length |-> RowLength(memory_table, self_addr),
                 data |-> GetData(memory_table, self_addr, Len(rows))]]
    /\ annotations' = InsertSymbolsFrom(
                          InsertRegistersFrom(ClearAnnotations(annotations),
                                              RegisterPointers, 1),
                          symtab, 1)
    /\ op' = "refresh_fetch"
    /\ UNCHANGED <<memory_table, self_addr, addr_step, scrolling, distance,
                   addr_before_scroll, vvalue, timers, events, drag, scrollRest,
                   editVars, singleVars>>

\* the background half of a refresh ends with the error of a register read
RefreshFetchFails ==
    /\ \E i \in 1..Len(inflight) :
          /\ inflight[i].phase = "called"
          /\ inflight' = RemoveAt(inflight, i)
    /\ annotations' = ClearAnnotations(annotations)
    /\ op' = "refresh_fails"
    /\ UNCHANGED <<memory_table, self_addr, addr_step, scrolling, distance,
                   addr_before_scroll, vvalue, timers, events, drag, scrollRest,
                   editVars, singleVars>>

\* the foreground half of a refresh (from line 1029 on), which ends the refresh
RefreshApply ==
    /\ \E i \in 1..Len(inflight) :
          /\ inflight[i].phase = "fetched"
          /\ addr_step' = AddrStep(inflight[i].length)
          /\ rows' = UpdatedRows(rows, inflight[i].data, editing_row)
          /\ selection' = Selected(selection,
                 SelectedRow(rows, inflight[i].data, editing_row, 1, NoRow))
          /\ inflight' = RemoveAt(inflight, i)
    /\ op' = "refresh"
    /\ UNCHANGED <<memory_table, self_addr, scrolling, distance, addr_before_scroll,
                   vvalue, timers, events, annotations, drag, scrollRest,
                   editing_row, selected_addr, memval, edits, editor, singleVars>>

NextView ==
    \/ SetMemoryTable
    \/ VScrollbarStart
    \/ MoveScrollbar
    \/ ScrollTick
    \/ ScrollTickStops
    \/ VScrollbarEnd
    \/ ScrollEvent
    \/ ScrollEventRaises
    \/ RefreshFetch
    \/ RefreshFetchFails
    \/ RefreshApply

SpecView == InitView /\ [][NextView]_vars

(***************************************************************************)
(* C19: every refresh that completes sets addr_step to max(1, length of    *)
(* the first row that its get_data call returned, made at the address      *)
(* shown at the time of the call); addr_step >= 1 in every reachable       *)
(* state, and a step of the mouse wheel moves the address by exactly       *)
(* +addr_step or -addr_step, never by 0.                                   *)
(***************************************************************************)
FetchedAtCurrentAddress ==
    op' = "refresh_fetch" =>
        \E i \in 1..Len(inflight) :
            /\ inflight[i].phase = "called"
            /\ inflight'[i].phase = "fetched"
            /\ inflight'[i].addr = self_addr
            /\ inflight'[i].length = RowLength(memory_table, self_addr)

StepOfFirstRow ==
    op' = "refresh" =>
        \E i \in 1..Len(inflight) :
            /\ inflight[i].phase = "fetched"
            /\ inflight' = RemoveAt(inflight, i)
            /\ addr_step' = (IF inflight[i].length > 1 THEN inflight[i].length ELSE 1)

WheelMovesByStep ==
    op' = "_on_scroll_event" =>
        /\ self_addr' - self_addr \in {addr_step, -addr_step}
        /\ self_addr' # self_addr

C19_StepAtLeastOne ==
    /\ [](addr_step >= 1)
    /\ [][FetchedAtCurrentAddress /\ StepOfFirstRow /\ WheelMovesByStep]_vars

\* a refresh has completed at an address where the first row has length 0,
\* and of all refreshes it was the only one in flight
C19_Witness ==
    /\ op = "refresh"
    /\ inflight = <<>>
    /\ RowLength(memory_table, self_addr) = 0
    /\ addr_step = 1

(***************************************************************************)
(* C20: after every scroll tick of a drag the address shown is             *)
(* addr_before_scroll + sign(distance) * ceil(|distance|), the distance    *)
(* being rounded away from zero: when the distance is not zero the address *)
(* differs from the address at the start of the drag by at least 1.        *)
(***************************************************************************)
C20_RoundedAwayFromZero ==
    op \in {"_on_scroll_tick", "_on_vscrollbar_end"} =>
        LET m == self_addr - addr_before_scroll IN
        /\ distance >= 0 => (m >= 0 /\ 10 * m >= distance /\ 10 * (m - 1) < distance)
        /\ distance < 0  => (m < 0 /\ 10 * m <= distance /\ 10 * (m + 1) > distance)
        /\ distance # 0  => Abs(m) >= 1

\* a tick has left a distance between -1 and 0, and the address one below
C20_Witness ==
    /\ op = "_on_scroll_tick"
    /\ distance < 0
    /\ distance > -10
    /\ self_addr = addr_before_scroll - 1

(***************************************************************************)
(* C21: the release of the scrollbar after a press applies exactly one     *)
(* last tick before it clears the scrolling flag, whether or not a timer   *)
(* has fired: the tick moves the distance by a non-zero amount in the      *)
(* direction of the offset v when v # 0, and leaves it as it is when       *)
(* v = 0.                                                                  *)
(***************************************************************************)
C21_FinalTickOnRelease ==
    [][op' = "_on_vscrollbar_end" =>
          /\ scrolling /\ ~scrolling'
          /\ vvalue > 0 => (distance' > distance /\ distance' - distance = Pow2(vvalue))
          /\ vvalue < 0 => (distance' < distance /\ distance - distance' = Pow2(-vvalue))
          /\ vvalue = 0 => distance' = distance
          /\ 10 * Abs(self_addr' - addr_before_scroll) >= Abs(distance')
          /\ 10 * Abs(self_addr' - addr_before_scroll) < Abs(distance') + 10]_vars

\* the scrollbar was pressed, pulled up and released at once: no timer has
\* fired, and the address is one below that of the press
C21_Witness ==
    /\ op = "_on_vscrollbar_end"
    /\ events = 3
    /\ ~scrolling
    /\ timers = 1
    /\ distance < 0
    /\ self_addr = addr_before_scroll - 1

(***************************************************************************)
(* C22: in a drag in which the offset of the scrollbar never changes its   *)
(* sign, the magnitude of the distance never decreases from tick to tick,  *)
(* and the increment of a tick is not below that of the tick before when   *)
(* |v| is not below what it was.                                           *)
(***************************************************************************)
SameSign(ticks) ==
    \/ \A k \in 1..Len(ticks) : ticks[k].v >= 0
    \/ \A k \in 1..Len(ticks) : ticks[k].v <= 0

Increment(tick) == Abs(tick.after - tick.before)

C22_MonotoneDrag ==
    SameSign(drag) =>
        /\ \A k \in 1..Len(drag) : Abs(drag[k].after) >= Abs(drag[k].before)
        /\ \A k \in 2..Len(drag) :
              /\ drag[k].before = drag[k - 1].after
              /\ Abs(drag[k].v) >= Abs(drag[k - 1].v) =>
                    Increment(drag[k]) >= Increment(drag[k - 1])

\* two ticks of one drag, the scrollbar pulled further down for the second
C22_Witness ==
    /\ Len(drag) = 2
    /\ drag[1].v > 0
    /\ drag[2].v > drag[1].v
    /\ Increment(drag[2]) > Increment(drag[1])
    /\ distance = Increment(drag[1]) + Increment(drag[2])

\* C27: the address shown by the table viewer is an address of the memory in
\* every reachable state: 0 <= addr < 2^addr_width_bits after any sequence of
\* wheel steps, scrollbar ticks and set_addr calls.
C27_AddressInMemory ==
    /\ 0 <= self_addr
    /\ self_addr < Pow2(TheMemory.addr_width_bits)

(***************************************************************************)
(* C29: parsing is all-or-nothing                                          *)
(***************************************************************************)
\* the lines of a file, each of them ended by a newline
FileLines(text) ==
    IF text = <<>> THEN <<>> ELSE Split(SubSeq(text, 1, Len(text) - 1), "\n")

CountOf(s, c) == Cardinality({i \in 1..Len(s) : s[i] = c})

FirstIndex(s, c) == CHOOSE i \in 1..Len(s) : s[i] = c /\ \A j \in 1..(i - 1) : s[j] # c

\* the part of s before its first c, all of s when it has none
Before(s, c) == IF CountOf(s, c) = 0 THEN s ELSE SubSeq(s, 1, FirstIndex(s, c) - 1)

After(s, c) == SubSeq(s, FirstIndex(s, c) + 1, Len(s))

\* a line that is not `[text] hex-address : [hex-value] [; comment]`: no ':' or
\* more than one, no address or one that is not hexadecimal, a value that is
\* not hexadecimal
MalformedLine(line) ==
    \/ CountOf(line, ":") # 1
    \/ LET address == SplitWS(Before(line, ":"))
           value   == Strip(Before(After(line, ":"), ";"))
       IN  \/ address = <<>>
           \/ ~IsHex(address[Len(address)])
           \/ value # <<>> /\ ~IsHex(value)

BlankLine(line) == \A i \in 1..Len(line) : IsSpace(line[i])

RECURSIVE DropBlank(_)
DropBlank(ls) == IF ls # <<>> /\ BlankLine(Head(ls)) THEN DropBlank(Tail(ls)) ELSE ls

Reversed(ls) == [i \in 1..Len(ls) |-> ls[Len(ls) + 1 - i]]

\* the lines of a file without its leading and trailing blank lines
TrimmedLines(ls) == Reversed(DropBlank(Reversed(DropBlank(ls))))

\* the load has issued no write and yielded no pair, and has logged one error
\* if its body has run
NothingLoaded ==
    /\ writes = <<>>
    /\ yielded = <<>>
    /\ gen.state # "suspended"
    /\ gen.state = "done" => log = <<"parse">>
    /\ gen.state # "done" => log = <<>>

\* C29 as stated: if any line of a listing file is malformed (no ':' or more
\* than one, a blank line, a non-hex address or value), the load issues zero
\* writes to memory, yields no progress pair and logs the error once.
C29_AnyMalformedLine ==
    (/\ gen.loader = "lst"
     /\ \E i \in 1..Len(FileLines(gen.text)) : MalformedLine(FileLines(gen.text)[i]))
        => NothingLoaded

\* C29, amended: parsing is all-or-nothing in both loaders.  If a line of a
\* listing file is malformed, leading and trailing blank lines aside, or the
\* file has no other line, or the ELF structure is malformed, the load issues
\* zero writes, yields no progress pair and logs the error once.
C29_AllOrNothing ==
    /\ gen.loader = "lst" =>
          LET ls == TrimmedLines(FileLines(gen.text)) IN
          (ls = <<>> \/ \E i \in 1..Len(ls) : MalformedLine(ls[i])) => NothingLoaded
    /\ (gen.loader = "elf" /\ gen.image.malformed) => NothingLoaded

\* a listing whose first line carries a value and whose second line has no ':'
C29_Witness ==
    /\ gen.loader = "lst"
    /\ gen.state = "done"
    /\ FileLines(gen.text) = <<L_ab, L_nocolon>>
    /\ ~MalformedLine(L_ab)
    /\ log = <<"parse">>
    /\ writes = <<>>
    /\ mem = {}

(***************************************************************************)
(* SingleMemoryViewer: the follow box, the address box and refresh          *)
(***************************************************************************)
MaxSingle == 2       \* SingleMemoryViewer.refresh calls that have not ended
MaxFollow == 2       \* uses of the address box and of the follow box

dragVars == <<scrolling, distance, addr_before_scroll, vvalue, timers, drag>>

\* what the user may type in the address box
Expressions == {"", "R0"}

\* system.evaluate(expression) may raise: nothing to evaluate, or a register
\* that cannot be read
EvaluateRaises(expression) == expression \in {"", "R0"}

EvaluateReturns(expression) == expression = "R0"

\* the address that system.evaluate(expression) returns
Evaluate(expression) == regs[<<"R", 0>>]

\* (mutant) lines 447-449 without the test: a refresh without an address shows address 0
AppliedAddr_zero(current, addr) == IF addr = NoRow THEN 0 ELSE addr[1]

\* lines 447-449 and set_addr: the address shown once the refresh has ended
AppliedAddr(current, addr) == IF addr = NoRow THEN current ELSE addr[1]

\* SingleMemoryViewer.__init__: the table viewer shows the default table
InitFollow ==
    /\ disk = OneDisk
    /\ InitLoader
    /\ InitUtil
    /\ memory_table = "MemoryWordTable"
    /\ InitTableViewer
    /\ InitIndex

\* _on_addr_change: an expression is entered in the address box; checking the
\* follow box when it was not checked runs _on_follow_toggled first
AddrChange ==
    /\ events < MaxFollow
    /\ Len(srefresh) + (IF follow THEN 1 ELSE 2) <= MaxSingle
    /\ \E text \in Expressions : addr_expression' = text
    /\ follow' = TRUE
    /\ unfollowed' = "none"
    /\ srefresh' = IF follow THEN Append(srefresh, SingleCall)
                   ELSE srefresh \o <<SingleCall, SingleCall>>
    /\ events' = events + 1
    /\ op' = "_on_addr_change"
    /\ UNCHANGED <<memory_table, self_addr, addr_step, dragVars, inflight, annotations,
                   scrollRest, editVars, sdone, view_log>>

\* the user clicks the follow box: _on_follow_toggled
FollowToggled ==
    /\ events < MaxFollow
    /\ Len(srefresh) < MaxSingle
    /\ follow' = ~follow
    /\ IF follow'
       THEN /\ \E text \in Expressions : addr_expression' = text
            /\ unfollowed' = "none"
       ELSE /\ addr_expression' = addr_expression
            /\ unfollowed' = "user"
    /\ srefresh' = Append(srefresh, SingleCall)
    /\ events' = events + 1
    /\ op' = "_on_follow_toggled"
    /\ UNCHANGED <<memory_table, self_addr, addr_step, dragVars, inflight, annotations,
                   scrollRest, editVars, sdone, view_log>>

\* SingleMemoryViewer.refresh, first part (GTK thread, in the order of the
\* calls): the follow box is read
SingleSample ==
    /\ \E i \in 1..Len(srefresh) :
          /\ srefresh[i].phase = "called"
          /\ \A j \in 1..(i - 1) : srefresh[j].phase # "called"
          /\ srefresh' = [srefresh EXCEPT ![i] = [@ EXCEPT !.phase = "sampled",
                                                          !.follow = follow]]
    /\ op' = "refresh_sample"
    /\ UNCHANGED <<memory_table, self_addr, addr_step, dragVars, inflight, events,
                   annotations, scrollRest, editVars, follow, unfollowed, singleRest>>

\* second part (background thread): the expression is evaluated when following
SingleEvaluate ==
    /\ \E i \in 1..Len(srefresh) :
          /\ srefresh[i].phase = "sampled"
          /\ srefresh[i].follow => EvaluateReturns(addr_expression)
          /\ srefresh' = [srefresh EXCEPT ![i] =
                [@ EXCEPT !.phase = "evaluated",
                          !.addr = IF srefresh[i].follow
                                   THEN <<Evaluate(addr_expression)>> ELSE NoRow]]
    /\ op' = "refresh_evaluate"
    /\ UNCHANGED <<memory_table, self_addr, addr_step, dragVars, inflight, events,
                   annotations, scrollRest, editVars, follow, unfollowed, singleRest>>

\* second part, system.evaluate raises: the follow box is unchecked (which
\* runs _on_follow_toggled if it was checked) and the error is logged
SingleEvaluateFails ==
    /\ \E i \in 1..Len(srefresh) :
          /\ srefresh[i].phase = "sampled"
          /\ srefresh[i].follow
          /\ EvaluateRaises(addr_expression)
          /\ follow => Len(srefresh) < MaxSingle
          /\ LET failed == [srefresh EXCEPT ![i] = [@ EXCEPT !.phase = "evaluated",
                                                            !.failed = TRUE]]
             IN  srefresh' = IF follow THEN Append(failed, SingleCall) ELSE failed
    /\ follow' = FALSE
    /\ unfollowed' = IF follow THEN "error" ELSE unfollowed
    /\ view_log' = Append(view_log, "Address Expression Evaluation")
    /\ op' = "refresh_evaluate_fails"
    /\ UNCHANGED <<memory_table, self_addr, addr_step, dragVars, inflight, events,
                   annotations, scrollRest, editVars, sdone, addr_expression>>

\* third part (GTK thread): set_addr if there is an address, then the table
\* viewer is refreshed
SingleApply ==
    /\ Len(inflight) < MaxInFlight
    /\ \E i \in 1..Len(srefresh) :
          /\ srefresh[i].phase = "evaluated"
          /\ self_addr' = AppliedAddr(self_addr, srefresh[i].addr)
          /\ editing_row' = IF self_addr' # self_addr THEN NoRow ELSE editing_row
          /\ sdone' = [srefresh[i] EXCEPT !.phase = "done"]
          /\ srefresh' = RemoveAt(srefresh, i)
    /\ inflight' = RefreshCalled(inflight)
    /\ op' = "SingleMemoryViewer.refresh"
    /\ UNCHANGED <<memory_table, addr_step, dragVars, events, annotations, scrollRest,
                   editRest, follow, unfollowed, view_log, addr_expression>>

\* the wheel is turned over the table of a SingleMemoryViewer
WheelTurned ==
    /\ events < MaxFollow
    /\ ScrollEvent

NextFollow ==
    \/ AddrChange
    \/ FollowToggled
    \/ SingleSample
    \/ SingleEvaluate
    \/ SingleEvaluateFails
    \/ SingleApply
    \/ WheelTurned
    \/ RefreshFetch
    \/ RefreshApply

SpecFollow == InitFollow /\ [][NextFollow]_vars

\* C23: when evaluating the address expression fails during a refresh in
\* follow mode, follow mode is switched off, the error is logged with its
\* context and the address shown is kept, also when that refresh ends; a
\* refresh that found follow mode off never changes the address shown.
C23_FailedEvaluation ==
    [][/\ op' = "refresh_evaluate_fails" =>
            /\ ~follow'
            /\ view_log' = Append(view_log, "Address Expression Evaluation")
            /\ self_addr' = self_addr
       /\ (op' = "SingleMemoryViewer.refresh" /\ (sdone'.failed \/ ~sdone'.follow)) =>
            /\ sdone'.addr = NoRow
            /\ self_addr' = self_addr]_vars

\* the second refresh of an entered expression fails after the first one has
\* shown the address of the expression
C23_Witness ==
    /\ op = "SingleMemoryViewer.refresh"
    /\ sdone.follow
    /\ sdone.failed
    /\ ~follow
    /\ unfollowed = "error"
    /\ view_log = <<"Address Expression Evaluation">>
    /\ self_addr = regs[<<"R", 0>>]
    /\ self_addr # 0

\* C30: a scroll always wins over follow mode: once a scroll has switched
\* follow mode off, no refresh sets the address shown from the expression
\* until follow mode is switched on again.
C30_ScrollWins ==
    (op = "SingleMemoryViewer.refresh" /\ sdone.addr # NoRow) => unfollowed # "scroll"

(***************************************************************************)
(* MemoryTableViewer: editing a cell                                        *)
(***************************************************************************)
MaxRows == 2         \* rows that fit in the window
MaxEdit == 3         \* things the user does to the table

\* the words of the memory that change while the table is shown
ChangingWords == {0, 1}

\* what the user may type in a cell
EditTexts == {"0", "1", "zz"}

\* set_cell raises a value-format error for a text that is not a number
CellValueError(new_data) == new_data \notin {"0", "1"}

CellValue(new_data) == IF new_data = "1" THEN 1 ELSE 0

\* the address of row `row` of the rows fetched from address a on
RECURSIVE RowAddr(_, _, _)
RowAddr(table, a, row) ==
    IF row = 0 THEN a ELSE RowAddr(table, a + RowLength(table, a), row - 1)

\* a word of the memory is written
WriteWord(words, a, value) == IF value = 1 THEN words \cup {a} ELSE words \ {a}

\* set_addr, lines 810-812: editing stops when the address changes
SetAddrEditing(current, addr, editing) == IF current # addr THEN NoRow ELSE editing

\* _on_size_change: the window now has room for n rows
SizeChange ==
    /\ events < MaxEdit
    /\ editor = NoRow
    /\ \E n \in (1..MaxRows) \ {Len(rows)} :
          IF n > Len(rows)
          THEN /\ Len(inflight) < MaxInFlight
               /\ rows' = rows \o [k \in 1..(n - Len(rows)) |-> EmptyRow]
               /\ inflight' = RefreshCalled(inflight)
               /\ UNCHANGED <<selection, selected_addr>>
          ELSE /\ rows' = SubSeq(rows, 1, n)
               /\ inflight' = inflight
               /\ IF selection # NoRow /\ selection[1] >= n
                  THEN selection' = NoRow /\ selected_addr' = rows[1].addr
                  ELSE UNCHANGED <<selection, selected_addr>>
    /\ events' = events + 1
    /\ op' = "_on_size_change"
    /\ UNCHANGED <<memory_table, self_addr, addr_step, dragVars, annotations, scrollRest,
                   editing_row, memval, edits, editor, singleVars>>

\* the user selects a row: _on_selection_change
SelectionChange ==
    /\ events < MaxEdit
    /\ \E row \in 0..(Len(rows) - 1) :
          /\ selection # <<row>>
          /\ selection' = <<row>>
          /\ selected_addr' = rows[row + 1].addr
    /\ events' = events + 1
    /\ op' = "_on_selection_change"
    /\ UNCHANGED <<memory_table, self_addr, addr_step, dragVars, inflight, annotations,
                   scrollRest, editing_row, rows, memval, edits, editor, singleVars>>

\* _on_editing_started: the user opens the editor of a cell of a row
EditingStarted ==
    /\ events < MaxEdit
    /\ editor = NoRow
    /\ \E row \in 0..(Len(rows) - 1) :
          /\ editor' = <<row>>
          /\ editing_row' = <<row>>
    /\ events' = events + 1
    /\ op' = "_on_editing_started"
    /\ UNCHANGED <<memory_table, self_addr, addr_step, dragVars, inflight, annotations,
                   scrollRest, rows, selection, selected_addr, memval, edits, singleVars>>

\* _on_editing_canceled: the user leaves the editor without a new text
EditingCanceled ==
    /\ editor # NoRow
    /\ Len(inflight) < MaxInFlight
    /\ editor' = NoRow
    /\ editing_row' = NoRow
    /\ inflight' = RefreshCalled(inflight)
    /\ op' = "_on_editing_canceled"
    /\ UNCHANGED <<memory_table, self_addr, addr_step, dragVars, events, annotations,
                   scrollRest, rows, selection, selected_addr, memval, edits, singleVars>>

\* the user ends the editor with a new text: _on_edited is called
Edited ==
    /\ editor # NoRow
    /\ \E new_data \in EditTexts :
          edits' = Append(edits, [phase |-> "called", row |-> editor[1],
                                   new_data |-> new_data])
    /\ editor' = NoRow
    /\ op' = "_on_edited_called"
    /\ UNCHANGED <<memory_table, self_addr, addr_step, dragVars, inflight, events,
                   annotations, scrollRest, editing_row, rows, selection, selected_addr,
                   memval, singleVars>>

\* _on_edited, background part (lines 914-917): set_cell writes the value
EditWrite ==
    /\ \E i \in 1..Len(edits) :
          /\ edits[i].phase = "called"
          /\ ~CellValueError(edits[i].new_data)
          /\ memval' = WriteWord(memval, RowAddr(memory_table, self_addr, edits[i].row),
                                 CellValue(edits[i].new_data))
          /\ edits' = [edits EXCEPT ![i] = [@ EXCEPT !.phase = "written"]]
    /\ op' = "_on_edited_write"
    /\ UNCHANGED <<memory_table, self_addr, addr_step, dragVars, inflight, events,
                   annotations, scrollRest, editing_row, rows, selection, selected_addr,
                   editor, singleVars>>

\* _on_edited, background part: set_cell raises, which ends the call before
\* its yield; the rest of _on_edited never runs
EditWriteFails ==
    /\ \E i \in 1..Len(edits) :
          /\ edits[i].phase = "called"
          /\ CellValueError(edits[i].new_data)
          /\ edits' = RemoveAt(edits, i)
    /\ op' = "_on_edited_fails"
    /\ UNCHANGED <<memory_table, self_addr, addr_step, dragVars, inflight, events,
                   annotations, scrollRest, editing_row, rows, selection, selected_addr,
                   memval, editor, singleVars>>

\* _on_edited, GTK part (lines 920-927)
EditDone ==
    /\ Len(inflight) < MaxInFlight
    /\ \E i \in 1..Len(edits) :
          /\ edits[i].phase = "written"
          /\ edits' = RemoveAt(edits, i)
    /\ editing_row' = NoRow
    /\ inflight' = RefreshCalled(inflight)
    /\ op' = "_on_edited"
    /\ UNCHANGED <<memory_table, self_addr, addr_step, dragVars, events, annotations,
                   scrollRest, rows, selection, selected_addr, memval, editor, singleVars>>

\* the device changes a word of the memory
MemoryChanges ==
    /\ \E a \in ChangingWords :
          memval' = IF a \in memval THEN memval \ {a} ELSE memval \cup {a}
    /\ op' = "memory_changes"
    /\ UNCHANGED <<memory_table, self_addr, addr_step, dragVars, inflight, events,
                   annotations, scrollRest, editing_row, rows, selection, selected_addr,
                   edits, editor, singleVars>>

\* set_addr(addr)
SetAddr ==
    /\ events < MaxEdit
    /\ \E a \in ChangingWords :
          /\ self_addr' = a
          /\ editing_row' = SetAddrEditing(self_addr, a, editing_row)
    /\ events' = events + 1
    /\ op' = "set_addr"
    /\ UNCHANGED <<memory_table, addr_step, dragVars, inflight, annotations, scrollRest,
                   editRest, singleVars>>

\* refresh(), called by the owner of the table viewer
Refresh ==
    /\ events < MaxEdit
    /\ Len(inflight) < MaxInFlight
    /\ inflight' = RefreshCalled(inflight)
    /\ events' = events + 1
    /\ op' = "refresh_called"
    /\ UNCHANGED <<memory_table, self_addr, addr_step, dragVars, annotations, scrollRest,
                   editVars, singleVars>>

\* what the user does to the scrollbar, the wheel and the choice of table
UserScrolls ==
    /\ events < MaxEdit
    /\ \/ ScrollEvent
       \/ VScrollbarStart
       \/ MoveScrollbar
       \/ ScrollTick
       \/ VScrollbarEnd
       \/ SetMemoryTable /\ editor = NoRow

NextEdit ==
    \/ SizeChange
    \/ SelectionChange
    \/ EditingStarted
    \/ EditingCanceled
    \/ Edited
    \/ EditWrite
    \/ EditWriteFails
    \/ EditDone
    \/ MemoryChanges
    \/ SetAddr
    \/ Refresh
    \/ UserScrolls
    \/ ScrollTickStops
    \/ RefreshFetch
    \/ RefreshApply

SpecEdit == InitFollow /\ [][NextEdit]_vars

\* C24: when set_cell rejects the text of an edit, the edit is not applied, no
\* row shown changes, and the edited row is not left locked: editing_row is
\* reset, so that the next refresh shows what is in memory in that row.
C24_RejectedEditUnlocks ==
    op = "_on_edited_fails" => editing_row = NoRow

\* the rows that a refresh step has applied: those of a fetched refresh that
\* the step has taken out of the refreshes in flight
AppliedData ==
    {inflight[i].data : i \in {k \in 1..Len(inflight) :
                                  /\ inflight[k].phase = "fetched"
                                  /\ inflight' = RemoveAt(inflight, k)}}

\* C28: while row r is edited, a refresh that finds the address and the length
\* of row r unchanged leaves row r and the selection as they are and updates
\* every other row; a change of the address shown (set_addr to another value,
\* wheel step, scroll tick) or of the memory table resets editing_row to None.
C28_EditedRowKept ==
    [][/\ op' = "refresh" =>
            \A data \in AppliedData :
               \A r \in 0..(Len(rows) - 1) :
                  (/\ editing_row = <<r>>
                   /\ r < Len(data)
                   /\ data[r + 1].addr = rows[r + 1].addr
                   /\ data[r + 1].length = rows[r + 1].length)
                  => /\ rows'[r + 1] = rows[r + 1]
                     /\ selection' = selection
                     /\ editing_row' = editing_row
                     /\ \A k \in 1..Len(rows) :
                           (k # r + 1 /\ k <= Len(data)) => rows'[k] = data[k]
       /\ self_addr' # self_addr => editing_row' = NoRow
       /\ op' \in {"_on_scroll_event", "_on_scroll_tick", "_on_vscrollbar_end"}
            => editing_row' = NoRow
       /\ memory_table' # memory_table => editing_row' = NoRow]_vars

\* row 0 is edited and still shows 0 where the memory now holds 1, while the
\* refresh has shown the new value of row 1, and the selection was kept
C28_Witness ==
    /\ op = "refresh"
    /\ editing_row = <<0>>
    /\ Len(rows) = 2
    /\ rows[1] = [addr |-> 0, length |-> 1, data |-> <<0>>]
    /\ rows[2] = [addr |-> 1, length |-> 1, data |-> <<1>>]
    /\ memval = {0, 1}
    /\ self_addr = 0
    /\ inflight = <<>>

(***************************************************************************)
(* util/lazy.py: the lazy decorator and _LazyWrapper                        *)
(***************************************************************************)
MaxCalls == 3        \* calls of the wrapped function

\* attributes of the object that the wrapped function returns
PublicNames == {"x", "y"}

\* the names read on the wrapper: the public ones and a field of the wrapper
ReadNames == PublicNames \cup {"_value"}

AttrValues == {1, 2}

\* _LazyWrapper._checkset; `returns` says whether the wrapped function
\* returns an object or raises
CheckSet(w, returns) ==
    IF w.fast \/ w.isset THEN w
    ELSE IF returns
         THEN [w EXCEPT !.calls = @ + 1, !.isset = TRUE, !.fast = TRUE,
                        !.override = FALSE,
                        !.attrs = {<<n, 0>> : n \in PublicNames}]
    ELSE [w EXCEPT !.calls = @ + 1, !.override = TRUE,
                   !.last = [kind |-> "raised", v |-> 0]]

\* the call reaches the wrapped function
CallsFunction(w) == ~w.fast /\ ~w.isset

\* lazy(f)(*args): _LazyWrapper.__init__
Construct ==
    /\ ~lazyw.made
    /\ lazyw' = [NoWrapper EXCEPT !.made = TRUE]
    /\ op' = "lazy"
    /\ UNCHANGED <<loaderVars, q, annVars, scrollVars, editVars, singleVars, viewer>>

\* wrapper.name is read: the instance dictionary first, then __getattr__
GetAttr ==
    /\ lazyw.made
    /\ \E name \in ReadNames, returns \in BOOLEAN :
          IF name = "_value"
          THEN lazyw' = [lazyw EXCEPT !.last = [kind |-> "field", v |-> 0]]
          ELSE IF name \in DictKeys(lazyw.own)
          THEN lazyw' = [lazyw EXCEPT !.last = [kind |-> "own", v |-> DictGet(lazyw.own, name)],
                                      !.accessed = TRUE]
          ELSE /\ CallsFunction(lazyw) => lazyw.calls < MaxCalls
               /\ LET w == CheckSet([lazyw EXCEPT !.accessed = TRUE], returns) IN
                  lazyw' = IF CallsFunction(lazyw) /\ ~returns THEN w
                           ELSE [w EXCEPT !.last = [kind |-> "value",
                                                    v |-> DictGet(w.attrs, name)]]
    /\ op' = "__getattr__"
    /\ UNCHANGED <<loaderVars, q, annVars, scrollVars, editVars, singleVars, viewer>>

\* wrapper.name = val: __setattr__
SetAttr ==
    /\ lazyw.made
    /\ \E name \in PublicNames, val \in AttrValues, returns \in BOOLEAN :
          IF lazyw.override
          THEN lazyw' = [lazyw EXCEPT !.own = DictSet(@, name, val), !.accessed = TRUE,
                                      !.last = NoResult]
          ELSE /\ CallsFunction(lazyw) => lazyw.calls < MaxCalls
               /\ LET w == CheckSet([lazyw EXCEPT !.accessed = TRUE], returns) IN
                  lazyw' = IF CallsFunction(lazyw) /\ ~returns THEN w
                           ELSE [w EXCEPT !.attrs = DictSet(@, name, val),
                                          !.last = NoResult]
    /\ op' = "__setattr__"
    /\ UNCHANGED <<loaderVars, q, annVars, scrollVars, editVars, singleVars, viewer>>

NextLazy ==
    \/ Construct
    \/ GetAttr
    \/ SetAttr

SpecLazy == InitView /\ [][NextLazy]_vars

\* C25: a value built with the lazy decorator is compute-once-then-cache: the
\* function is not called at construction, is called exactly once at the first
\* attribute read or write, never again, and every read and write acts on the
\* one cached result.
C25_ComputeOnce ==
    lazyw.made =>
        /\ lazyw.calls <= 1
        /\ lazyw.accessed => lazyw.calls = 1
        /\ ~lazyw.accessed => lazyw.calls = 0
        /\ lazyw.own = {}

(***************************************************************************)
(* SingleMemoryViewer.__init__: the memory tables and the one shown first   *)
(***************************************************************************)
MaxDisassemblers == 2    \* disassemblers of a memory

\* word_width_bits of the memories and of the architectures
MemoryWidths == {4, 8, 16, 32}
ArchitectureWidths == {8, 16, 32}

\* an entry of memory_tables; a separator is ("", None)
TableEntry(kind, disassembler, elem_size_bits, num_elems) ==
    [kind |-> kind, disassembler |-> disassembler,
     elem_size_bits |-> elem_size_bits, num_elems |-> num_elems]

Separator == TableEntry("", 0, 0, 0)

\* xxx_allowed_element_sizes(word_bits): 1, 2, ... while num*word_bits <= 64
xxx_allowed_element_sizes(word_bits) == [num \in 1..(64 \div word_bits) |-> num]

\* size_names[bits] after lines 276-289, "" when bits is not a key: a later
\* assignment replaces an earlier one
SizeName(bits, mem_bits, arch_bits) ==
    IF bits = 8 THEN "Byte"
    ELSE IF bits = 4 THEN "Nybble"
    ELSE IF bits = 1 THEN "Bit"
    ELSE IF bits = arch_bits * 4 THEN "Quad-Word"
    ELSE IF bits = arch_bits * 2 THEN "Double-Word"
    ELSE IF bits = arch_bits * 1 THEN "Word"
    ELSE IF bits = arch_bits \div 2 THEN "Half-Word"
    ELSE IF bits = mem_bits THEN "Memory-Word"
    ELSE ""

\* the loop over the disassemblers of the memory (lines 222-249)
RECURSIVE DisassemblerTables(_, _, _)
DisassemblerTables(v, disassembler, last) ==
    IF disassembler > last THEN v
    ELSE LET sep == IF Len(v.memory_tables) > 0
                    THEN Append(v.memory_tables, Separator) ELSE v.memory_tables
         IN  DisassemblerTables(
                [v EXCEPT !.table_disassembly =
                              IF @ = <<>> THEN <<Len(sep)>> ELSE @,
                          !.memory_tables = sep \o
                              <<TableEntry("Source", disassembler, 0, 0),
                                TableEntry("Full Source", disassembler, 0, 0),
                                TableEntry("Disassembly", disassembler, 0, 0)>>],
                disassembler + 1, last)

\* the tables of source without disassembly (lines 250-270)
SourceTables(v) ==
    LET sep == IF Len(v.memory_tables) > 0
               THEN Append(v.memory_tables, Separator) ELSE v.memory_tables
    IN  [v EXCEPT !.table_disassembly = IF @ = <<>> THEN <<Len(sep)>> ELSE @,
                  !.memory_tables = sep \o <<TableEntry("Source", 0, 0, 0),
                                            TableEntry("Full Source", 0, 0, 0)>>]

\* the loop over the element sizes (lines 292-321)
RECURSIVE WordTables(_, _)
WordTables(v, sizes) ==
    IF sizes = <<>> THEN v
    ELSE LET elem_size_bits == Head(sizes) * v.mem_bits
             size_name == SizeName(elem_size_bits, v.mem_bits, v.arch_bits)
         IN  IF size_name = "" THEN WordTables(v, Tail(sizes))
             ELSE LET sep == Append(v.memory_tables, Separator) IN
                  WordTables(
                     [v EXCEPT !.table_cpu_word =
                                   IF size_name = "Word" /\ @ = <<>>
                                   THEN <<Len(sep)>> ELSE @,
                               !.memory_tables = sep \o
                                   [k \in 1..5 |->
                                      TableEntry("MemoryWord", 0, elem_size_bits,
                                                 2 ^ (k - 1))]],
                     Tail(sizes))

\* _create_memory_tables
CreateMemoryTables(v) ==
    WordTables(SourceTables(DisassemblerTables(v, 1, v.disassemblers)),
               xxx_allowed_element_sizes(v.mem_bits))

\* lines 196-206: the index of the table shown first
DefaultTable(v) ==
    IF v.show_disassembly /\ v.table_disassembly # <<>> THEN v.table_disassembly[1]
    ELSE IF v.table_cpu_word # <<>> THEN v.table_cpu_word[1]
    ELSE 0

\* the memory, the architecture and the argument of the constructor are chosen
ChooseMemory ==
    /\ op = "init"
    /\ \E n \in 0..MaxDisassemblers, m \in MemoryWidths, a \in ArchitectureWidths,
          show \in BOOLEAN :
          viewer' = [NoViewer EXCEPT !.disassemblers = n, !.mem_bits = m,
                                     !.arch_bits = a, !.show_disassembly = show]
    /\ op' = "memory"
    /\ UNCHANGED <<loaderVars, q, annVars, scrollVars, editVars, singleVars, lazyw>>

\* SingleMemoryViewer(system, memory, show_disassembly)
CreateViewer ==
    /\ op = "memory"
    /\ LET v == CreateMemoryTables(viewer) IN
       viewer' = [v EXCEPT !.made = TRUE, !.table = DefaultTable(v)]
    /\ op' = "SingleMemoryViewer"
    /\ UNCHANGED <<loaderVars, q, annVars, scrollVars, editVars, singleVars, lazyw>>

NextTables ==
    \/ ChooseMemory
    \/ CreateViewer

SpecTables == InitView /\ [][NextTables]_vars

\* the table of one word of the CPU, and the table of one word of the memory
SingleCpuWord(v, t) ==
    t.kind = "MemoryWord" /\ t.num_elems = 1 /\ t.elem_size_bits = v.arch_bits

SingleMemoryWord(v, t) ==
    t.kind = "MemoryWord" /\ t.num_elems = 1 /\ t.elem_size_bits = v.mem_bits

\* C26: the table shown first follows the documented rule for every memory and
\* architecture: a table with a disassembly if show_disassembly is true;
\* otherwise the single-CPU-word table when there is one, and failing that a
\* single-memory-word table; it is never a separator.
C26_DefaultTable ==
    viewer.made =>
        LET t == viewer.memory_tables[viewer.table + 1] IN
        /\ t # Separator
        /\ viewer.show_disassembly => t.disassembler # 0
        /\ ~viewer.show_disassembly =>
              IF \E k \in 1..Len(viewer.memory_tables) :
                    SingleCpuWord(viewer, viewer.memory_tables[k])
              THEN SingleCpuWord(viewer, t)
              ELSE SingleMemoryWord(viewer, t)

(***************************************************************************)
(* SingleMemoryViewer: refreshes in flight while the view or the address    *)
(* changes                                                                  *)
(***************************************************************************)

\* _on_view_changed: the user picks another view; set_memory_table gives the
\* table viewer a new list store with one empty row, then
\* SingleMemoryViewer.refresh is called
ViewChanged ==
    /\ events < MaxFollow
    /\ Len(srefresh) < MaxSingle
    /\ \E t \in MemoryTables \ {memory_table} : memory_table' = t
    /\ editing_row' = NoRow
    /\ rows' = <<EmptyRow>>
    /\ selection' = NoRow
    /\ srefresh' = Append(srefresh, SingleCall)
    /\ events' = events + 1
    /\ op' = "_on_view_changed"
    /\ UNCHANGED <<self_addr, addr_step, dragVars, inflight, annotations, scrollRest,
                   selected_addr, memval, edits, editor, follow, unfollowed, singleRest>>

NextStale ==
    \/ ViewChanged
    \/ WheelTurned
    \/ SingleSample
    \/ SingleEvaluate
    \/ SingleApply
    \/ RefreshFetch
    \/ RefreshApply

SpecStale == InitFollow /\ [][NextStale]_vars

\* every refresh that was called has ended
AllCompleted == inflight = <<>> /\ srefresh = <<>>

\* the rows that get_data returns now, for the address and the table shown
CurrentRows == GetData(memory_table, self_addr, Len(rows))

\* C31: with several MemoryTableViewer.refresh calls in flight, once all of
\* them have completed the rows displayed are those fetched for the current
\* address from the current memory table: the rows of a refresh started
\* before a later change of the address or of the table are not what ends
\* up in the list store.
C31_NoStaleRows ==
    (op = "refresh" /\ AllCompleted) => rows = CurrentRows

\* C32: at most one periodic scroll-tick timer is live at any time, for any
\* sequence of presses and releases of the scrollbar: in particular a press
\* that starts a drag when none is going on, the timer of a released drag
\* being still pending or not, leaves at most one timer live.
C32_OneTimer == [][(~scrolling /\ scrolling') => timers' <= 1]_vars

====
